---------------------------- MODULE Spec2Model ----------------------------
(***************************************************************************)
(* A model of the Oversight Gateway (src/oversight_gateway): the risk      *)
(* engine, the request handlers of main.py, the webhook manager and the    *)
(* live-subscriber (WebSocket) manager.                                    *)
(*                                                                         *)
(* Conventions.                                                            *)
(*  - Floats are fixed-point integers.  The three risk components, boosts  *)
(*    and severities are in hundredths (Scale); a risk score, a budget and *)
(*    a threshold are in millionths (the exact product of three            *)
(*    components); a near-miss multiplier is in thousandths (MultScale).   *)
(*    Floating-point rounding is not modelled.                             *)
(*  - Strings that the code inspects (action names, rule patterns,         *)
(*    targets) are sequences of one-character strings.                     *)
(*  - A request handler is a coroutine: one step of the model is one       *)
(*    database statement (or HTTP / WebSocket send) together with the      *)
(*    code that follows it up to the next await.  Every request has its    *)
(*    own AsyncSession (database.get_db), so what a handler loaded stays   *)
(*    in its identity map, unrefreshed (expire_on_commit=False), until it  *)
(*    commits.                                                             *)
(*  - Database statements do not fail, except by a constraint violation;   *)
(*    a webhook is not deleted while a delivery in flight holds its row.   *)
(***************************************************************************)
EXTENDS Integers, Sequences, FiniteSets, TLC

\* ------------------------------------------------------------------ bounds
MaxReq      == 2   \* request handlers in flight at once
MaxActions  == 2   \* evaluate calls per behaviour (core and policy)
MaxApprove  == 2   \* approve calls per behaviour
MaxNearMiss == 1   \* near-miss calls per behaviour
MaxTime     == 1   \* clock ticks per behaviour (policy specification)
MaxHookTime == 3   \* clock ticks per behaviour (event specification)
MaxEvents   == 2   \* requests per behaviour (event, webhook and live
                   \* specifications)
MaxSuccessive   == 3   \* evaluate calls per behaviour (compound specification)
MaxCompoundTime == 2   \* clock ticks per behaviour (compound specification)
MaxLearnEvals   == 2   \* evaluate calls per behaviour (near-miss specification)
MaxLearnMisses  == 3   \* near-miss calls per behaviour (near-miss specification)
MaxScored       == 2   \* evaluate calls per behaviour (scorer specification)
MaxLearnTime    == 1   \* clock ticks per behaviour (near-miss specification)
MaxFifoEvents   == 2   \* requests per behaviour (message-order specification)
MaxFifoTime     == 1   \* clock ticks per behaviour (message-order specification)
MaxAliveEvents  == 2   \* requests per behaviour (termination specification)
MaxToolCalls    == 2   \* tool calls per behaviour (LangChain integration)

\* ------------------------------------------------------- program constants
Scale          == 100      \* 1.0 of a risk component
MultScale      == 1000     \* 1.0 of a near-miss multiplier
BaseFactor     == 30       \* 0.3: base impact, breadth and probability
max_retries    == 3        \* WebhookManager.__init__
DisableAfter   == 10       \* failures after which a webhook is disabled

Min(a, b) == IF a < b THEN a ELSE b
Max(a, b) == IF a > b THEN a ELSE b

RECURSIVE Pow2(_)
Pow2(n) == IF n <= 0 THEN 1 ELSE 2 * Pow2(n - 1)

\* ----------------------------------------------------------------- strings
\* str.lower() on one character (the alphabet of the model).
LowerChar(c) ==
    CASE c = "A" -> "a"
      [] c = "D" -> "d"
      [] c = "L" -> "l"
      [] c = "M" -> "m"
      [] c = "T" -> "t"
      [] OTHER   -> c

Lower(s) == [i \in 1..Len(s) |-> LowerChar(s[i])]

\* `word in text` of Python: word is a contiguous substring of text.
IsSubstring(word, text) ==
    \E k \in 0..(Len(text) - Len(word)) :
        \A i \in 1..Len(word) : text[k + i] = word[i]

\* re.match(pattern.replace("*", ".*"), action, re.IGNORECASE): anchored at
\* the start only; "*" matches any run of characters; letters match
\* case-insensitively.  (The alphabet has no other regex metacharacter.)
RECURSIVE ReMatch(_, _)
ReMatch(p, s) ==
    IF p = <<>> THEN TRUE
    ELSE IF Head(p) = "*"
         THEN \E k \in 0..Len(s) : ReMatch(Tail(p), SubSeq(s, k + 1, Len(s)))
         ELSE /\ s # <<>>
              /\ LowerChar(Head(s)) = LowerChar(Head(p))
              /\ ReMatch(Tail(p), Tail(s))

\* ---------------------------------------------------------------- metadata
\* A metadata value: absent, or a bool, a number, a string or a list (n is
\* the number, or the length of the list).
Absent      == [t |-> "absent", b |-> FALSE, n |-> 0, s |-> ""]
BoolV(x)    == [t |-> "bool",   b |-> x,     n |-> 0, s |-> ""]
NumV(x)     == [t |-> "num",    b |-> FALSE, n |-> x, s |-> ""]
StrV(x)     == [t |-> "str",    b |-> FALSE, n |-> 0, s |-> x]
ListV(len)  == [t |-> "list",   b |-> FALSE, n |-> len, s |-> ""]

MetaKeys ==
    {"contains_pii", "financial", "irreversible", "amount", "recipients",
     "scope", "broadcast", "public", "user_confirmed", "automated",
     "time_sensitive", "off_hours", "force"}

\* The request metadata: a map; a key that is not in the map is Absent.
NoMeta == [k \in MetaKeys |-> Absent]
Meta(pairs) == [k \in MetaKeys |-> IF k \in DOMAIN pairs THEN pairs[k] ELSE Absent]

\* Python truthiness of metadata.get(key) (None when the key is absent).
Truthy(v) ==
    CASE v.t = "bool" -> v.b
      [] v.t = "num"  -> v.n # 0
      [] v.t = "str"  -> v.s # ""
      [] v.t = "list" -> v.n > 0
      [] OTHER        -> FALSE

\* `if metadata:` : neither None nor the empty map.
MetaTruthy(md) == \E k \in MetaKeys : md[k].t # "absent"

\* float(metadata["amount"]) / int(metadata["recipients"]) raise on a
\* non-numeric string; float() raises on a list.
FloatFails(v) == v.t = "str" \/ v.t = "list"
IntFails(v)   == v.t = "str"
NumOf(v) ==
    CASE v.t = "num"  -> v.n
      [] v.t = "bool" -> IF v.b THEN 1 ELSE 0
      [] OTHER        -> 0

\* ------------------------------------------------------------------ target
\* Optional[str]: None, or a string (possibly empty).
NoTarget   == [some |-> FALSE, s |-> <<>>]
Target(s)  == [some |-> TRUE,  s |-> s]
\* `if target:` : neither None nor "".
TargetTruthy(tg) == tg.some /\ tg.s # <<>>



\* ------------------------------------------------------------------ policy
\* config.PolicyConfig, flattened.  time_window and half_life are in clock
\* ticks; metadata_boosts is the rule's dict in insertion order.
Rule(pattern, floor, always, boosts, description) ==
    [pattern |-> pattern, impact_floor |-> floor, always_checkpoint |-> always,
     metadata_boosts |-> boosts, description |-> description]

\* The default thresholds of config.py with two action rules.
PolicyA ==
    [checkpoint_trigger |-> 600000, session_budget |-> 800000,
     action_rules |-> <<
        Rule(<<"d">>, 90, TRUE, <<>>, "Destructive operation"),
        Rule(<<"*", "t">>, 50, FALSE, <<[key |-> "force", boost |-> 30]>>,
             "Transfer") >>,
     time_window |-> 1, same_resource_boost |-> 20, min_count |-> 2,
     half_life |-> 1, max_multiplier |-> 2000, min_severity |-> 10]

\* Another policy file: a catch-all rule listed before the destructive rule,
\* and thresholds that the scores of the modelled requests meet exactly.
PolicyB ==
    [checkpoint_trigger |-> 500000, session_budget |-> 1000000,
     action_rules |-> <<
        Rule(<<"*">>, 30, FALSE, <<>>, "Any"),
        Rule(<<"d">>, 90, TRUE, <<>>, "Destructive operation") >>,
     time_window |-> 0, same_resource_boost |-> 50, min_count |-> 3,
     half_life |-> 2, max_multiplier |-> 1200, min_severity |-> 50]

Policies == {PolicyA, PolicyB}

\* A policy file whose rule values lie outside [0,1], which from_dict takes
\* as they are: a negative metadata boost and an impact floor above 1.
PolicyC ==
    [checkpoint_trigger |-> 600000, session_budget |-> 800000,
     action_rules |-> <<
        Rule(<<"t">>, 50, FALSE, <<[key |-> "force", boost |-> -80]>>, "Transfer"),
        Rule(<<"d">>, 150, FALSE, <<>>, "Destructive operation") >>,
     time_window |-> 1, same_resource_boost |-> 20, min_count |-> 2,
     half_life |-> 1, max_multiplier |-> 2000, min_severity |-> 10]

\* PolicyConfig.get_action_rule: the index of the first rule, in list order,
\* whose pattern matches the action name; 0 for None.
get_action_rule(policy, action) ==
    LET hits == {i \in 1..Len(policy.action_rules) :
                    ReMatch(policy.action_rules[i].pattern, action)}
    IN  IF hits = {} THEN 0 ELSE CHOOSE i \in hits : \A j \in hits : i <= j

\* ------------------------------------------------------------------ scorer
\* The loop over action_rule.metadata_boosts.items().
RECURSIVE ApplyRuleBoosts(_, _, _)
ApplyRuleBoosts(impact, boosts, md) ==
    IF boosts = <<>> THEN impact
    ELSE LET e == Head(boosts)
             next == IF e.key \in MetaKeys /\ Truthy(md[e.key])
                     THEN Min(Scale, impact + e.boost) ELSE impact
         IN  ApplyRuleBoosts(next, Tail(boosts), md)

\* One `if cond: x = min(1.0, x + boost)` statement.
Boost(x, cond, boost) == IF cond THEN Min(Scale, x + boost) ELSE x

\* RiskEngine._calculate_impact raises when float(metadata["amount"]) does.
ImpactFails(md) == Truthy(md["amount"]) /\ FloatFails(md["amount"])

\* An impact whose two amount boosts exclude each other (an elif).
ImpactOneAmountBoost(policy, action, md) ==
    LET r  == get_action_rule(policy, action)
        i0 == BaseFactor
        i1 == IF r = 0 THEN i0
              ELSE LET rule == policy.action_rules[r]
                       fl   == Max(i0, rule.impact_floor)
                   IN  IF MetaTruthy(md) /\ rule.metadata_boosts # <<>>
                       THEN ApplyRuleBoosts(fl, rule.metadata_boosts, md)
                       ELSE fl
        i2 == Boost(i1, Truthy(md["contains_pii"]), 20)
        i3 == Boost(i2, Truthy(md["financial"]), 30)
        i4 == Boost(i3, Truthy(md["irreversible"]), 20)
        amount == NumOf(md["amount"])
        i5 == IF Truthy(md["amount"]) /\ amount > 10000 THEN Min(Scale, i4 + 30)
              ELSE Boost(i4, Truthy(md["amount"]) /\ amount > 1000, 20)
    IN  Min(Scale, i5)

\* RiskEngine._calculate_impact
_calculate_impact(policy, action, md) ==
    LET r  == get_action_rule(policy, action)
        i0 == BaseFactor
        i1 == IF r = 0 THEN i0
              ELSE LET rule == policy.action_rules[r]
                       fl   == Max(i0, rule.impact_floor)
                   IN  IF MetaTruthy(md) /\ rule.metadata_boosts # <<>>
                       THEN ApplyRuleBoosts(fl, rule.metadata_boosts, md)
                       ELSE fl
        i2 == Boost(i1, Truthy(md["contains_pii"]), 20)
        i3 == Boost(i2, Truthy(md["financial"]), 30)
        i4 == Boost(i3, Truthy(md["irreversible"]), 20)
        amount == NumOf(md["amount"])
        i5 == Boost(i4, Truthy(md["amount"]) /\ amount > 1000, 20)
        i6 == Boost(i5, Truthy(md["amount"]) /\ amount > 10000, 30)
    IN  Min(Scale, i6)

KwBroad == { <<"a","l","l">> }       \* "all" of ["all","everyone","public","broadcast"]
KwGroup == { <<"t","e","a","m">> }   \* "team" of ["group","team","list"]

BreadthFails(md) == Truthy(md["recipients"]) /\ IntFails(md["recipients"])

\* RiskEngine._calculate_breadth
_calculate_breadth(target, md) ==
    LET b0 == BaseFactor
        tl == Lower(target.s)
        b1 == IF ~TargetTruthy(target) THEN b0
              ELSE IF \E w \in KwBroad : IsSubstring(w, tl) THEN 90
              ELSE IF \E w \in KwGroup : IsSubstring(w, tl) THEN 60
              ELSE b0
        count == NumOf(md["recipients"])    \* len(list) or int(value)
        b2 == IF ~Truthy(md["recipients"]) THEN b1
              ELSE IF count > 100 THEN 90
              ELSE IF count > 10 THEN 60
              ELSE IF count > 1 THEN 40
              ELSE b1
        b3 == IF md["scope"] = StrV("global") THEN 100
              ELSE IF md["scope"] = StrV("organization") THEN 80
              ELSE b2
        b4 == Boost(b3, Truthy(md["broadcast"]) \/ Truthy(md["public"]), 30)
    IN  Min(Scale, b4)

\* RiskEngine._calculate_probability
_calculate_probability(md) ==
    LET p0 == BaseFactor
        p1 == Boost(p0, md["user_confirmed"] = BoolV(FALSE), 30)
        p2 == Boost(p1, Truthy(md["automated"]), 20)
        p3 == Boost(p2, Truthy(md["time_sensitive"]), 10)
        p4 == Boost(p3, Truthy(md["off_hours"]), 20)
    IN  Min(Scale, p4)

\* -------------------------------------------------------- history adjuster
RootHalf == 707    \* 0.5 ** 0.5, in thousandths

\* 0.5 ** (age / half_life), in thousandths, for a half-life of 1 or 2 ticks.
Decay(age, half_life) ==
    LET whole == age \div half_life
        part  == IF age % half_life = 0 THEN MultScale ELSE RootHalf
    IN  part \div Pow2(whole)

\* A SELECT that compares the action names without regard to letter case.
NearMissRowsAnyCase(rows, action) ==
    SelectSeq(rows, LAMBDA nm : Lower(nm.action) = Lower(action))

\* The SELECT of _get_near_miss_multiplier (l.262-265): the rows whose action
\* name equals the given one, whatever their session.
NearMissRows(rows, action) ==
    SelectSeq(rows, LAMBDA nm : nm.action = action)

\* A loop that counts every selected row, whatever its severity.
RECURSIVE NearMissSumAll(_, _, _)
NearMissSumAll(policy, rows, t) ==
    IF rows = <<>> THEN 0
    ELSE LET nm == Head(rows)
         IN  NearMissSumAll(policy, Tail(rows), t) +
             (nm.actual_severity * 5 * Decay(t - nm.created_at, policy.half_life))
                 \div MultScale

\* The loop of _get_near_miss_multiplier over the selected rows (l.274-282):
\* what the rows add to the multiplier, in thousandths.
RECURSIVE NearMissSum(_, _, _)
NearMissSum(policy, rows, t) ==
    IF rows = <<>> THEN 0
    ELSE LET nm   == Head(rows)
             rest == NearMissSum(policy, Tail(rows), t)
         IN  IF nm.actual_severity < policy.min_severity
             THEN rest
             ELSE rest + (nm.actual_severity * 5 * Decay(t - nm.created_at, policy.half_life))
                            \div MultScale

\* A multiplier without the cap of max_multiplier.
MultiplierUncapped(policy, rows, action, t) ==
    LET selected == NearMissRows(rows, action)
    IN  IF selected = <<>> THEN MultScale
        ELSE MultScale + NearMissSum(policy, selected, t)

\* RiskEngine._get_near_miss_multiplier, in thousandths.
_get_near_miss_multiplier(policy, rows, action, t) ==
    LET selected == NearMissRows(rows, action)
    IN  IF selected = <<>> THEN MultScale
        ELSE Min(policy.max_multiplier, MultScale + NearMissSum(policy, selected, t))

\* A count over the Actions of every session.
RecentCountAnySession(rows, session_id, target, cutoff) ==
    Cardinality({i \in 1..Len(rows) :
        /\ rows[i].target = target
        /\ rows[i].created_at >= cutoff})

\* The SELECT count() of _detect_compound_action.
RecentCount(rows, session_id, target, cutoff) ==
    Cardinality({i \in 1..Len(rows) :
        /\ rows[i].session_id = session_id
        /\ rows[i].target = target
        /\ rows[i].created_at >= cutoff})

\* A detection that needs min_count earlier actions.
DetectOffByOne(policy, recent_count) ==
    IF recent_count >= policy.min_count
    THEN [is_compound |-> TRUE,  compound_count |-> recent_count + 1]
    ELSE [is_compound |-> FALSE, compound_count |-> 1]

\* RiskEngine._detect_compound_action (the target is not empty): the pair
\* (is_compound, count_in_window) from the counted rows.
_detect_compound_action(policy, recent_count) ==
    IF recent_count >= policy.min_count - 1
    THEN [is_compound |-> TRUE,  compound_count |-> recent_count + 1]
    ELSE [is_compound |-> FALSE, compound_count |-> 1]

\* A detection that calls an action without target compound.
CompoundOfOne == [is_compound |-> TRUE, compound_count |-> 1]

\* `if not target: return False, 1` (l.232-233).
NotCompound == [is_compound |-> FALSE, compound_count |-> 1]

\* breadth = min(1.0, breadth * (1.0 + boost * compound_count))
CompoundBreadth(policy, breadth, det) ==
    IF det.is_compound
    THEN Min(Scale, (breadth * (Scale + policy.same_resource_boost * det.compound_count))
                        \div Scale)
    ELSE breadth

\* An evaluate that leaves the probability as the scorer gave it.
ProbabilityUnadjusted(probability, mult) == probability

\* probability = min(1.0, probability * near_miss_multiplier)
NearMissProbability(probability, mult) ==
    Min(Scale, (probability * mult) \div MultScale)

\* ---------------------------------------------------------- decision maker
RECURSIVE Pad(_, _)
Pad(n, w) == IF w = 0 THEN "" ELSE Pad(n \div 10, w - 1) \o ToString(n % 10)

RECURSIVE StripZeros(_, _)
StripZeros(n, w) == IF w > 1 /\ n % 10 = 0 THEN StripZeros(n \div 10, w - 1) ELSE Pad(n, w)

\* f"{x:.3f}" of a value in millionths.
Fmt3(x) == LET r == (x + 500) \div 1000 IN ToString(r \div 1000) \o "." \o Pad(r % 1000, 3)
\* f"{x}" of a value in millionths.
FmtFloat(x) == ToString(x \div 1000000) \o "." \o StripZeros(x % 1000000, 6)

ActionRuleReason(rule) == "Action rule: " \o rule.description
HighRiskReason(risk, trigger) ==
    "High risk score: " \o Fmt3(risk) \o " > " \o FmtFloat(trigger)
BudgetReason(total, budget) ==
    "Would exceed session budget: " \o Fmt3(total) \o " > " \o FmtFloat(budget)
CompoundTag(n) == "Compound action (" \o ToString(n) \o "x). "
CompoundAlone(n) == "Compound action detected (" \o ToString(n) \o "x)"

\* The decision with the thresholds tested before the action rule.
DecideThresholdFirst(policy, action, risk_score, sess, det) ==
    LET r == get_action_rule(policy, action)
    IN  IF risk_score > policy.checkpoint_trigger
        THEN [needs |-> TRUE,
              reason |-> <<HighRiskReason(risk_score, policy.checkpoint_trigger)>>]
        ELSE IF sess.cumulative_risk + risk_score > sess.risk_budget
        THEN [needs |-> TRUE,
              reason |-> <<BudgetReason(sess.cumulative_risk + risk_score,
                                        sess.risk_budget)>>]
        ELSE IF r # 0 /\ policy.action_rules[r].always_checkpoint
        THEN [needs |-> TRUE, reason |-> <<ActionRuleReason(policy.action_rules[r])>>]
        ELSE [needs |-> FALSE, reason |-> <<>>]

\* The decision with comparisons that are not strict.
DecideNonStrict(policy, action, risk_score, sess, det) ==
    LET r == get_action_rule(policy, action)
    IN  IF r # 0 /\ policy.action_rules[r].always_checkpoint
        THEN [needs |-> TRUE, reason |-> <<ActionRuleReason(policy.action_rules[r])>>]
        ELSE IF risk_score >= policy.checkpoint_trigger
        THEN [needs |-> TRUE,
              reason |-> <<HighRiskReason(risk_score, policy.checkpoint_trigger)>>]
        ELSE IF sess.cumulative_risk + risk_score >= sess.risk_budget
        THEN [needs |-> TRUE,
              reason |-> <<BudgetReason(sess.cumulative_risk + risk_score,
                                        sess.risk_budget)>>]
        ELSE [needs |-> FALSE, reason |-> <<>>]

\* Lines 92-112 of RiskEngine.evaluate_action: the checkpoint decision.  The
\* reason is the sequence of the parts the code concatenates.
Decide(policy, action, risk_score, sess, det) ==
    LET r == get_action_rule(policy, action)
        base ==
            IF r # 0 /\ policy.action_rules[r].always_checkpoint
            THEN [needs |-> TRUE, reason |-> <<ActionRuleReason(policy.action_rules[r])>>]
            ELSE IF risk_score > policy.checkpoint_trigger
            THEN [needs |-> TRUE,
                  reason |-> <<HighRiskReason(risk_score, policy.checkpoint_trigger)>>]
            ELSE IF sess.cumulative_risk + risk_score > sess.risk_budget
            THEN [needs |-> TRUE,
                  reason |-> <<BudgetReason(sess.cumulative_risk + risk_score,
                                            sess.risk_budget)>>]
            ELSE [needs |-> FALSE, reason |-> <<>>]
    IN  IF det.is_compound
        THEN [needs  |-> base.needs,
              reason |-> <<CompoundTag(det.compound_count)>> \o
                         (IF base.reason # <<>> THEN base.reason
                          ELSE <<CompoundAlone(det.compound_count)>>)]
        ELSE base

\* ------------------------------------------------------------------- state
VARIABLES
    now,                 \* datetime.utcnow(), in ticks
    config_policy,       \* config.get_config().policy
    risk_engine,         \* main.risk_engine: the policy its RiskEngine holds
    sessions,            \* table sessions, keyed by the unique session_id
    actions,             \* table actions: row i has id i
    near_misses,         \* table near_misses
    webhooks,            \* table webhooks, keyed by id
    active_connections,  \* main.manager.active_connections
    req,                 \* the request handlers (coroutines) in flight
    n_approve,           \* approve calls so far (bounds the model)
    tool_call            \* the tool call of the LangChain integration in progress

vars == <<now, config_policy, risk_engine, sessions, actions, near_misses,
          webhooks, active_connections, req, n_approve, tool_call>>

Reqs       == 1..MaxReq
SessionIds == {"s1", "s2"}
WebhookIds == {1, 2}
ConnIds    == {"c1", "c2", "c3"}

\* ---- rows
NoSession ==
    [exists |-> FALSE, risk_budget |-> 0, cumulative_risk |-> 0,
     created_at |-> 0, last_activity |-> 0]

\* A Session created with the column default of risk_budget (0.8).
NewSessionDefault(budget, t) ==
    [exists |-> TRUE, risk_budget |-> 800000, cumulative_risk |-> 0,
     created_at |-> t, last_activity |-> t]

\* models.Session(session_id=..., risk_budget=...) with the column defaults.
NewSession(budget, t) ==
    [exists |-> TRUE, risk_budget |-> budget, cumulative_risk |-> 0,
     created_at |-> t, last_activity |-> t]

NoWebhook ==
    [exists |-> FALSE, events |-> {}, secret |-> "", enabled |-> FALSE,
     last_triggered |-> -1, failure_count |-> 0]

\* models.Webhook(url=, events=, secret=) with the column defaults.
NewWebhook(events, secret) ==
    [exists |-> TRUE, events |-> events, secret |-> secret, enabled |-> TRUE,
     last_triggered |-> -1, failure_count |-> 0]

\* The approval columns of an Action nobody decided yet (all NULL).
Undecided ==
    [approved |-> "undecided", approval_timestamp |-> -1,
     approval_channel |-> "", approval_notes |-> ""]

NoAction ==
    [session_id |-> "", action |-> <<>>, target |-> NoTarget, metadata |-> NoMeta,
     impact |-> 0, breadth |-> 0, probability |-> 0, risk_score |-> 0,
     needs_checkpoint |-> FALSE, checkpoint_reason |-> <<>>,
     is_compound |-> FALSE, compound_count |-> 1, created_at |-> 0,
     approval |-> Undecided]

\* ---- JSON documents: a dict is the sequence of its items in insertion
\* order; an item holds the JSON text of a scalar, or a nested dict.
Leaf(k, text)   == [k |-> k, leaf |-> TRUE, v |-> text, o |-> <<>>]
Obj(k, entries) == [k |-> k, leaf |-> FALSE, v |-> "", o |-> entries]

Quote(s) == "\"" \o s \o "\""

\* "".join(parts)
RECURSIVE Joined(_)
Joined(parts) == IF parts = <<>> THEN "" ELSE Head(parts) \o Joined(Tail(parts))

\* The keys of the event payloads in lexicographic order (what sort_keys
\* arranges them in).
KeyOrder ==
    << "action", "action_id", "approved", "channel", "data", "event",
       "near_miss_id", "needs_checkpoint", "reason", "risk_score", "session_id", "severity",
       "timestamp", "webhook_id" >>

RECURSIVE SortKeysFrom(_, _)
SortKeysFrom(d, i) ==
    IF i > Len(KeyOrder) THEN <<>>
    ELSE SelectSeq(d, LAMBDA e : e.k = KeyOrder[i]) \o SortKeysFrom(d, i + 1)

\* sorted(d.items())
SortKeys(d) == SortKeysFrom(d, 1)

\* json.dumps(d, sort_keys=...): the items in insertion order, or sorted by
\* key at every level, with the default separators.
RECURSIVE json_dumps(_, _)
RECURSIVE JsonItems(_, _)
JsonItems(items, sort_keys) ==
    IF items = <<>> THEN ""
    ELSE LET e    == Head(items)
             text == Quote(e.k) \o ": " \o
                     (IF e.leaf THEN e.v ELSE json_dumps(e.o, sort_keys))
         IN  IF Len(items) = 1 THEN text
             ELSE text \o ", " \o JsonItems(Tail(items), sort_keys)

json_dumps(d, sort_keys) ==
    "{" \o JsonItems(IF sort_keys THEN SortKeys(d) ELSE d, sort_keys) \o "}"

\* hmac.new(secret, msg, hashlib.sha256).hexdigest(), as a term: a MAC without
\* collisions, which only the holder of the secret can form.
HmacSha256(secret, msg) == "hmac-sha256(" \o secret \o ", " \o msg \o ")"

\* A signature over the payload as the dict lists its keys.
SignatureUnsorted(payload, secret) ==
    "sha256=" \o HmacSha256(secret, json_dumps(payload, FALSE))

\* WebhookManager._generate_signature (l.144-154)
_generate_signature(payload, secret) ==
    "sha256=" \o HmacSha256(secret, json_dumps(payload, TRUE))

\* The payload dict of _deliver_webhook (l.81-86); t is datetime.utcnow().
Payload(event, data, t, webhook_id) ==
    << Leaf("event", Quote(event)), Obj("data", data),
       Leaf("timestamp", Quote(ToString(t))),
       Leaf("webhook_id", ToString(webhook_id)) >>

\* The headers of _deliver_webhook (l.89-92).
Headers(payload, secret) ==
    IF secret # ""
    THEN << <<"Content-Type", "application/json">>,
            <<"X-Webhook-Signature", _generate_signature(payload, secret)>> >>
    ELSE << <<"Content-Type", "application/json">> >>

NoDelivery ==
    [st |-> "none", attempt |-> 0, wake |-> 0, dirty |-> FALSE,
     loaded |-> NoWebhook, obj |-> NoWebhook, payload |-> <<>>, headers |-> <<>>]

Task(sink, event) == [sink |-> sink, event |-> event]

\* ---- a request handler: the request body, the coroutine's position and
\* its local variables (the objects of its own AsyncSession included).
Idle ==
    [kind |-> "idle", pc |-> "idle", status |-> 0,
     \* request body
     session_id |-> "", action |-> <<>>, target |-> NoTarget, metadata |-> NoMeta,
     action_id |-> 0, approved |-> FALSE, channel |-> "", notes |-> "",
     severity |-> 0,
     \* RiskEngine.evaluate_action
     policy |-> PolicyA, sess |-> NoSession, cutoff |-> 0, mult |-> MultScale,
     impact |-> 0, breadth |-> 0, probability |-> 0, risk_score |-> 0,
     needs_checkpoint |-> FALSE, reason |-> <<>>, remaining |-> 0,
     engine_det |-> NotCompound,
     \* main.evaluate_action
     policy2 |-> PolicyA, is_compound |-> FALSE, compound_count |-> 1,
     new_id |-> 0,
     \* RiskEngine.record_approval
     act |-> NoAction, approval |-> Undecided, sess0 |-> NoSession,
     touch |-> FALSE,
     \* dispatch of events
     todo |-> <<>>, deliv |-> [w \in WebhookIds |-> NoDelivery],
     bc_cur |-> "", bc_idx |-> 0, bc_dead |-> <<>>,
     \* the subscriber list as it was when the broadcast in progress started
     bc_start |-> <<>>,
     \* the timestamp of the WebSocketMessage being broadcast
     bc_time |-> 0,
     \* what the handler has sent so far
     triggered |-> <<>>, bcast |-> <<>>, sent |-> <<>>]

\* No tool call has been made through the LangChain integration.
NoCall ==
    [pc |-> "idle", via |-> "", on_checkpoint |-> FALSE, tool |-> <<>>,
     input |-> <<>>,
     \* EvaluationResult: needs_checkpoint and action_id
     evaluated |-> FALSE, needs_checkpoint |-> FALSE, action_id |-> 0,
     \* what on_checkpoint returned, and whether client.approve returned
     asked |-> FALSE, approved |-> FALSE, recorded |-> FALSE,
     \* how the call ended, and whether the tool's own run method was called
     outcome |-> "", ran |-> FALSE]

\* The process right after startup (lifespan): empty tables, the policy
\* loaded from disk and held by the engine, nobody connected.
InitWith(policy, hooks, conns) ==
    /\ now = 0
    /\ config_policy = policy
    /\ risk_engine = policy
    /\ sessions = [s \in SessionIds |-> NoSession]
    /\ actions = <<>>
    /\ near_misses = <<>>
    /\ webhooks = hooks
    /\ active_connections = conns
    /\ req = [r \in Reqs |-> Idle]
    /\ n_approve = 0
    /\ tool_call = NoCall

\* ---------------------------------------------------------- event dispatch
\* A dispatch that hands action_evaluated to the webhooks as well.
EvaluateDispatchAll(needs_checkpoint) ==
    IF needs_checkpoint
    THEN << Task("hooks", "checkpoint_triggered"),
            Task("ws", "checkpoint_triggered"),
            Task("hooks", "action_evaluated"),
            Task("ws", "action_evaluated") >>
    ELSE << Task("hooks", "action_evaluated"),
            Task("ws", "action_evaluated") >>

\* What main.evaluate_action sends after it stored the Action (l.186-222).
EvaluateDispatch(needs_checkpoint) ==
    IF needs_checkpoint
    THEN << Task("hooks", "checkpoint_triggered"),
            Task("ws", "checkpoint_triggered"),
            Task("ws", "action_evaluated") >>
    ELSE << Task("ws", "action_evaluated") >>

\* What main.approve_action sends after record_approval (l.252-273).
ApproveDispatch(approved) ==
    LET event == IF approved THEN "action_approved" ELSE "action_rejected"
    IN  << Task("hooks", event), Task("ws", event) >>

\* What main.record_near_miss sends (l.313-334).
NearMissDispatch ==
    << Task("hooks", "near_miss_recorded"), Task("ws", "near_miss_recorded") >>

\* A cleanup that leaves the dead connections in the list.
RemoveNone(conns, dead) == conns

\* ConnectionManager.disconnect: list.remove of the first occurrence.
RECURSIVE RemoveConn(_, _)
RemoveConn(conns, c) ==
    IF conns = <<>> THEN <<>>
    ELSE IF Head(conns) = c THEN Tail(conns)
    ELSE <<Head(conns)>> \o RemoveConn(Tail(conns), c)

RECURSIVE RemoveAll(_, _)
RemoveAll(conns, dead) ==
    IF dead = <<>> THEN conns
    ELSE RemoveAll(RemoveConn(conns, Head(dead)), Tail(dead))

\* The handler's code from the end of one await to the start of the next:
\* it takes the tasks left in order.  trigger_webhooks awaits its SELECT;
\* ConnectionManager.broadcast iterates over the list itself and awaits each
\* send, so over an empty list it does not suspend at all.  The message gets
\* its timestamp when main constructs it (schemas.py l.161), before the call.
RECURSIVE Run(_, _)
Run(rq, conns) ==
    IF rq.todo = <<>>
    THEN [rq |-> [rq EXCEPT !.pc = "done", !.status = 200], conns |-> conns]
    ELSE LET t == Head(rq.todo)
         IN  IF t.sink = "hooks"
             THEN [rq |-> [rq EXCEPT !.pc = "hooks_select",
                                     !.triggered = Append(@, t.event)],
                   conns |-> conns]
             ELSE IF conns = <<>>
             THEN Run([rq EXCEPT !.todo = Tail(@), !.bcast = Append(@, t.event)], conns)
             ELSE [rq |-> [rq EXCEPT !.pc = "ws_send", !.bcast = Append(@, t.event),
                                     !.bc_time = now,
                                     !.bc_cur = conns[1], !.bc_idx = 1,
                                     !.bc_dead = <<>>, !.bc_start = conns],
                   conns |-> conns]

\* A new request is taken by the first handler slot that is free (the slots
\* are interchangeable).
FreeSlot(r) ==
    /\ req[r].pc = "idle"
    /\ \A q \in Reqs : q < r => req[q].pc # "idle"

\* A step of handler r ends with request record rq.
Finish(r, rq) ==
    LET out == Run(rq, active_connections)
    IN  /\ req' = [req EXCEPT ![r] = out.rq]
        /\ active_connections' = out.conns

\* An exception that reaches FastAPI: the handler ends with this status.
Fail(r, rq, status) ==
    req' = [req EXCEPT ![r] = [rq EXCEPT !.pc = "done", !.status = status]]

\* A selection that does not look at the enabled flag.
SubscribedAlsoDisabled(event) ==
    {w \in WebhookIds : webhooks[w].exists /\ event \in webhooks[w].events}

\* The rows trigger_webhooks selects and filters (l.45-52).
Subscribed(event) ==
    {w \in WebhookIds :
        webhooks[w].exists /\ webhooks[w].enabled /\ event \in webhooks[w].events}

\* The data dict main passes along with each event (main.py l.192-198,
\* l.215-221, l.259-263, l.318-322), in the order the code lists the keys.
EventData(rq, event) ==
    CASE event = "checkpoint_triggered" ->
           << Leaf("action_id", ToString(rq.new_id)),
              Leaf("session_id", Quote(rq.session_id)),
              Leaf("action", Quote(Joined(rq.action))),
              Leaf("risk_score", FmtFloat(rq.risk_score)),
              Leaf("reason", Quote(Joined(rq.reason))) >>
      [] event = "action_evaluated" ->
           << Leaf("action_id", ToString(rq.new_id)),
              Leaf("session_id", Quote(rq.session_id)),
              Leaf("action", Quote(Joined(rq.action))),
              Leaf("risk_score", FmtFloat(rq.risk_score)),
              Leaf("needs_checkpoint",
                   IF rq.needs_checkpoint THEN "true" ELSE "false") >>
      [] event \in {"action_approved", "action_rejected"} ->
           << Leaf("action_id", ToString(rq.action_id)),
              Leaf("approved", IF rq.approved THEN "true" ELSE "false"),
              Leaf("channel", Quote(rq.channel)) >>
      [] OTHER ->
           << Leaf("near_miss_id", ToString(rq.new_id)),
              Leaf("action", Quote(Joined(rq.action))),
              Leaf("severity", FmtFloat(rq.severity * 10000)) >>

\* trigger_webhooks: the SELECT returns; the deliveries are gathered, and each
\* builds its payload and its headers before its first attempt (l.81-92).
HooksSelect(r) ==
    LET rq    == req[r]
        event == Head(rq.todo).event
        subs  == Subscribed(event)
    IN  /\ rq.pc = "hooks_select"
        /\ IF subs = {}
           THEN Finish(r, [rq EXCEPT !.todo = Tail(@)])
           ELSE /\ req' = [req EXCEPT ![r] =
                     [rq EXCEPT !.pc = "deliver",
                                !.deliv = [w \in WebhookIds |->
                                    IF w \in subs
                                    THEN LET payload ==
                                                 Payload(event, EventData(rq, event), now, w)
                                         IN  [st |-> "post", attempt |-> 0, wake |-> now,
                                              dirty |-> FALSE, loaded |-> webhooks[w],
                                              obj |-> webhooks[w],
                                              payload |-> payload,
                                              headers |-> Headers(payload,
                                                                  webhooks[w].secret)]
                                    ELSE NoDelivery]]]
                /\ UNCHANGED active_connections
        /\ UNCHANGED <<tool_call, now, config_policy, risk_engine, sessions, actions,
                       near_misses, webhooks, n_approve>>

\* A backoff of one second whatever the attempt.
BackoffConstant(attempt) == 1

\* asyncio.sleep(2 ** attempt)
Backoff(attempt) == Pow2(attempt)

\* A retry loop that has no last attempt.
IsFinalAttemptNever(attempt) == FALSE

\* attempt == self.max_retries - 1
IsFinalAttempt(attempt) == attempt = max_retries - 1

\* The failure branch of the last attempt (l.128-138), on the loaded object.
RecordFailure(obj) ==
    [obj EXCEPT !.failure_count = @ + 1,
                !.enabled = IF obj.failure_count + 1 >= DisableAfter THEN FALSE ELSE @]

\* The success branch (l.104-107), on the loaded object.
RecordSuccess(obj, t) == [obj EXCEPT !.last_triggered = t, !.failure_count = 0]

\* _deliver_webhook: one HTTP POST returns (ok) or raises / times out; the
\* code runs on to the commit or to the backoff sleep, after which the next
\* attempt is made.  Every attempt posts the payload and the headers built
\* before the loop (l.97-101).
DeliverPost(r, w, ok) ==
    LET rq == req[r]
        d  == rq.deliv[w]
        event == Head(rq.todo).event
        post == [sink |-> "hook", event |-> event, dest |-> w,
                 attempt |-> d.attempt, ok |-> ok, time |-> now,
                 json |-> d.payload, headers |-> d.headers]
        d2 == IF ok
              THEN [d EXCEPT !.st = "commit", !.dirty = TRUE,
                             !.obj = RecordSuccess(d.obj, now)]
              ELSE IF IsFinalAttempt(d.attempt)
              THEN [d EXCEPT !.st = "commit", !.dirty = TRUE,
                             !.obj = RecordFailure(d.obj)]
              ELSE [d EXCEPT !.attempt = @ + 1, !.wake = now + Backoff(d.attempt)]
    IN  /\ rq.pc = "deliver"
        /\ d.st = "post"
        /\ now >= d.wake
        /\ req' = [req EXCEPT ![r] =
              [rq EXCEPT !.deliv[w] = d2, !.sent = Append(@, post)]]
        /\ UNCHANGED <<tool_call, now, config_policy, risk_engine, sessions, actions,
                       near_misses, webhooks, active_connections, n_approve>>

\* The UPDATE that a flush emits for one object: the attributes whose value
\* differs from the loaded one.
FlushRow(row, loaded, obj) ==
    [row EXCEPT
        !.failure_count  = IF obj.failure_count # loaded.failure_count
                           THEN obj.failure_count ELSE @,
        !.enabled        = IF obj.enabled # loaded.enabled THEN obj.enabled ELSE @,
        !.last_triggered = IF obj.last_triggered # loaded.last_triggered
                           THEN obj.last_triggered ELSE @]

\* A gather that lets the exception of a failed delivery through: the handler
\* ends with an internal error.
GatherDoneRaising(r, rq) ==
    IF \E i \in 1..Len(rq.sent) :
           rq.sent[i].sink = "hook" /\ ~rq.sent[i].ok
              /\ IsFinalAttempt(rq.sent[i].attempt)
    THEN Fail(r, rq, 500) /\ UNCHANGED active_connections
    ELSE Finish(r, [rq EXCEPT !.todo = Tail(@)])

\* asyncio.gather(*tasks, return_exceptions=True) returns (l.66): its result
\* is dropped, trigger_webhooks returns None and the handler goes on.
GatherDone(r, rq) == Finish(r, [rq EXCEPT !.todo = Tail(@)])

\* await db.commit() in _deliver_webhook: the request's session flushes every
\* object it holds modified; the delivery then returns, and when it was the
\* last one asyncio.gather returns.
DeliverCommit(r, w) ==
    LET rq == req[r]
        dl == [v \in WebhookIds |->
                 LET d == rq.deliv[v]
                 IN  [d EXCEPT !.dirty = FALSE,
                               !.loaded = IF d.dirty THEN d.obj ELSE @,
                               !.st = IF v = w THEN "done" ELSE @]]
        rq2 == [rq EXCEPT !.deliv = dl]
    IN  /\ rq.pc = "deliver"
        /\ rq.deliv[w].st = "commit"
        /\ webhooks' = [v \in WebhookIds |->
              IF rq.deliv[v].dirty /\ webhooks[v].exists
              THEN FlushRow(webhooks[v], rq.deliv[v].loaded, rq.deliv[v].obj)
              ELSE webhooks[v]]
        /\ IF \A v \in WebhookIds : dl[v].st \in {"none", "done"}
           THEN GatherDone(r, rq2)
           ELSE req' = [req EXCEPT ![r] = rq2] /\ UNCHANGED active_connections
        /\ UNCHANGED <<tool_call, now, config_policy, risk_engine, sessions, actions,
                       near_misses, n_approve>>

\* ConnectionManager.broadcast: the send to the current connection returns
\* (ok) or raises; the list iterator is asked for the next element, and after
\* the last one the dead connections are removed.
WsSend(r, ok) ==
    LET rq == req[r]
        event == Head(rq.todo).event
        msg == [sink |-> "ws", event |-> event, dest |-> rq.bc_cur,
                attempt |-> 0, ok |-> ok, time |-> now, timestamp |-> rq.bc_time]
        rq2 == [rq EXCEPT !.sent = Append(@, msg),
                          !.bc_dead = IF ok THEN @ ELSE Append(@, rq.bc_cur)]
    IN  /\ rq.pc = "ws_send"
        /\ IF rq.bc_idx < Len(active_connections)
           THEN /\ req' = [req EXCEPT ![r] =
                     [rq2 EXCEPT !.bc_cur = active_connections[rq.bc_idx + 1],
                                 !.bc_idx = @ + 1]]
                /\ UNCHANGED active_connections
           ELSE LET out == Run([rq2 EXCEPT !.todo = Tail(@), !.bc_dead = <<>>,
                                           !.bc_cur = "", !.bc_idx = 0,
                                           !.bc_start = <<>>, !.bc_time = 0],
                               RemoveAll(active_connections, rq2.bc_dead))
                IN  /\ req' = [req EXCEPT ![r] = out.rq]
                    /\ active_connections' = out.conns
        /\ UNCHANGED <<tool_call, now, config_policy, risk_engine, sessions, actions,
                       near_misses, webhooks, n_approve>>

\* A handler in flight holds websocket c: it has sent to it, or is
\* broadcasting over a list that had it.
Holds(r, c) ==
    \/ \E i \in 1..Len(req[r].sent) :
          req[r].sent[i].sink = "ws" /\ req[r].sent[i].dest = c
    \/ \E i \in 1..Len(req[r].bc_start) : req[r].bc_start[i] = c

\* websocket_dashboard: a dashboard connects; ConnectionManager.connect
\* appends the new WebSocket (l.81-83).  The WebSocket is a new object: its
\* name is one that is not in the list and that no handler holds.
WsConnect(c) ==
    /\ \A i \in 1..Len(active_connections) : active_connections[i] # c
    /\ \A r \in Reqs : ~Holds(r, c)
    /\ active_connections' = Append(active_connections, c)
    /\ UNCHANGED <<tool_call, now, config_policy, risk_engine, sessions, actions,
                   near_misses, webhooks, req, n_approve>>

\* websocket_dashboard: receive_text raises WebSocketDisconnect and the
\* handler calls ConnectionManager.disconnect (l.562-563).
WsDisconnect(c) ==
    /\ \E i \in 1..Len(active_connections) : active_connections[i] = c
    /\ active_connections' = RemoveConn(active_connections, c)
    /\ UNCHANGED <<tool_call, now, config_policy, risk_engine, sessions, actions,
                   near_misses, webhooks, req, n_approve>>

\* The response is sent; the handler and its AsyncSession are gone.
Return(r) ==
    /\ req[r].pc = "done"
    /\ req' = [req EXCEPT ![r] = Idle]
    /\ UNCHANGED <<tool_call, now, config_policy, risk_engine, sessions, actions,
                   near_misses, webhooks, active_connections, n_approve>>

\* DELETE /config/webhooks/{id}: the DELETE of the row commits (l.471-472).
\* (A delete while a delivery of a handler in flight still holds the row is
\* left out.)
DeleteWebhook(w) ==
    /\ webhooks[w].exists
    /\ \A r \in Reqs : req[r].pc = "deliver" => req[r].deliv[w].st \in {"none", "done"}
    /\ webhooks' = [webhooks EXCEPT ![w] = NoWebhook]
    /\ UNCHANGED <<tool_call, now, config_policy, risk_engine, sessions, actions,
                   near_misses, active_connections, req, n_approve>>

\* ---------------------------------------------------------------- evaluate
\* evaluate_action l.59-62: the three factors, or the exception of the scorer.
AfterSession(rq, sess) ==
    IF ImpactFails(rq.metadata) \/ BreadthFails(rq.metadata)
    THEN [rq EXCEPT !.pc = "done", !.status = 500, !.sess = sess]
    ELSE [rq EXCEPT !.pc = "ev_near_miss", !.sess = sess,
                    !.impact = _calculate_impact(rq.policy, rq.action, rq.metadata),
                    !.breadth = _calculate_breadth(rq.target, rq.metadata),
                    !.probability = _calculate_probability(rq.metadata)]

\* An engine that takes the score from the breadth as it was before the
\* compound boost.
AfterDetectionRawBreadth(rq, det) ==
    LET breadth == CompoundBreadth(rq.policy, rq.breadth, det)
        risk    == rq.impact * rq.breadth * rq.probability
        d       == Decide(rq.policy, rq.action, risk, rq.sess, det)
    IN  [rq EXCEPT !.engine_det = det, !.breadth = breadth, !.risk_score = risk,
                   !.needs_checkpoint = d.needs, !.reason = d.reason,
                   !.remaining = rq.sess.risk_budget - rq.sess.cumulative_risk]

\* evaluate_action l.81-124 with the result of its compound detection: the
\* boost, the score, the decision and the remaining budget.
AfterDetection(rq, det) ==
    LET breadth == CompoundBreadth(rq.policy, rq.breadth, det)
        risk    == rq.impact * breadth * rq.probability
        d       == Decide(rq.policy, rq.action, risk, rq.sess, det)
    IN  [rq EXCEPT !.engine_det = det, !.breadth = breadth, !.risk_score = risk,
                   !.needs_checkpoint = d.needs, !.reason = d.reason,
                   !.remaining = rq.sess.risk_budget - rq.sess.cumulative_risk]

\* POST /evaluate arrives: main binds risk_engine.evaluate_action (l.150)
\* and the engine SELECTs the session (l.44).
EvSession(r, session_id, action, target, metadata) ==
    LET rq == [Idle EXCEPT !.kind = "evaluate", !.session_id = session_id,
                           !.action = action, !.target = target,
                           !.metadata = metadata, !.policy = risk_engine]
    IN  /\ FreeSlot(r)
        /\ req' = [req EXCEPT ![r] =
              IF sessions[session_id].exists
              THEN AfterSession(rq, sessions[session_id])
              ELSE [rq EXCEPT !.pc = "ev_create"]]
        /\ UNCHANGED <<tool_call, now, config_policy, risk_engine, sessions, actions,
                       near_misses, webhooks, active_connections, n_approve>>

\* The INSERT of the new session commits (l.54-55), unless the unique
\* session_id is taken by now.
EvCreate(r) ==
    LET rq == req[r]
    IN  /\ rq.pc = "ev_create"
        /\ IF sessions[rq.session_id].exists
           THEN Fail(r, rq, 500) /\ UNCHANGED sessions
           ELSE /\ sessions' = [sessions EXCEPT ![rq.session_id] =
                      NewSession(rq.policy.session_budget, now)]
                /\ req' = [req EXCEPT ![r] = [rq EXCEPT !.pc = "ev_refresh"]]
        /\ UNCHANGED <<tool_call, now, config_policy, risk_engine, actions, near_misses,
                       webhooks, active_connections, n_approve>>

\* await db.refresh(session) (l.56), then the scorer.
EvRefresh(r) ==
    LET rq == req[r]
    IN  /\ rq.pc = "ev_refresh"
        /\ req' = [req EXCEPT ![r] = AfterSession(rq, sessions[rq.session_id])]
        /\ UNCHANGED <<tool_call, now, config_policy, risk_engine, sessions, actions,
                       near_misses, webhooks, active_connections, n_approve>>

\* The SELECT of the near-misses returns (l.262); the multiplier is applied,
\* and the compound detection either returns at once (no target) or computes
\* its cutoff and SELECTs.  With no target main does not detect again and
\* goes on to store the Action.
EvNearMiss(r) ==
    LET rq   == req[r]
        mult == _get_near_miss_multiplier(rq.policy, near_misses, rq.action, now)
        rq2  == [rq EXCEPT !.mult = mult,
                           !.probability = NearMissProbability(rq.probability, mult)]
    IN  /\ rq.pc = "ev_near_miss"
        /\ req' = [req EXCEPT ![r] =
              IF TargetTruthy(rq.target)
              THEN [rq2 EXCEPT !.pc = "ev_compound",
                               !.cutoff = now - rq.policy.time_window]
              ELSE [AfterDetection(rq2, NotCompound) EXCEPT
                        !.pc = "ev_insert", !.is_compound = FALSE,
                        !.compound_count = 1]]
        /\ UNCHANGED <<tool_call, now, config_policy, risk_engine, sessions, actions,
                       near_misses, webhooks, active_connections, n_approve>>

\* The engine's count returns (l.239-251); the engine decides and returns to
\* main, which calls _detect_compound_action on the global risk_engine again
\* (l.163): a new cutoff and a second SELECT.
EvCompound(r) ==
    LET rq  == req[r]
        n   == RecentCount(actions, rq.session_id, rq.target, rq.cutoff)
        det == _detect_compound_action(rq.policy, n)
    IN  /\ rq.pc = "ev_compound"
        /\ req' = [req EXCEPT ![r] =
              [AfterDetection(rq, det) EXCEPT
                  !.pc = "ev_compound2", !.policy2 = risk_engine,
                  !.cutoff = now - risk_engine.time_window]]
        /\ UNCHANGED <<tool_call, now, config_policy, risk_engine, sessions, actions,
                       near_misses, webhooks, active_connections, n_approve>>

\* Main's own count returns: the is_compound and compound_count it stores and
\* reports (l.160-165).
EvCompound2(r) ==
    LET rq  == req[r]
        n   == RecentCount(actions, rq.session_id, rq.target, rq.cutoff)
        det == _detect_compound_action(rq.policy2, n)
    IN  /\ rq.pc = "ev_compound2"
        /\ req' = [req EXCEPT ![r] =
              [rq EXCEPT !.pc = "ev_insert", !.is_compound = det.is_compound,
                         !.compound_count = det.compound_count]]
        /\ UNCHANGED <<tool_call, now, config_policy, risk_engine, sessions, actions,
                       near_misses, webhooks, active_connections, n_approve>>

\* The row main stores (l.168-181).
ActionRow(rq, t) ==
    [session_id |-> rq.session_id, action |-> rq.action, target |-> rq.target,
     metadata |-> rq.metadata,
     impact |-> rq.impact, breadth |-> rq.breadth, probability |-> rq.probability,
     risk_score |-> rq.risk_score, needs_checkpoint |-> rq.needs_checkpoint,
     checkpoint_reason |-> IF rq.needs_checkpoint THEN rq.reason ELSE <<>>,
     is_compound |-> rq.is_compound, compound_count |-> rq.compound_count,
     created_at |-> t, approval |-> Undecided]

\* The INSERT of the Action commits (l.182-184); the events follow.
EvInsert(r) ==
    LET rq == req[r]
    IN  /\ rq.pc = "ev_insert"
        /\ actions' = Append(actions, ActionRow(rq, now))
        /\ Finish(r, [rq EXCEPT !.new_id = Len(actions) + 1,
                                !.todo = EvaluateDispatch(rq.needs_checkpoint)])
        /\ UNCHANGED <<tool_call, now, config_policy, risk_engine, sessions, near_misses,
                       webhooks, n_approve>>

\* ----------------------------------------------------------------- approve
\* record_approval l.308-311: the approval attributes set on the loaded Action.
Decision(approved, channel, notes, t) ==
    [approved |-> IF approved THEN "approved" ELSE "rejected",
     approval_timestamp |-> t, approval_channel |-> channel,
     approval_notes |-> notes]

\* An approve that answers 200 for an unknown id.
NotFoundAs200(rq) == [rq EXCEPT !.pc = "done", !.status = 200]

\* No Action has the id: record_approval raises ValueError (l.305-306), which
\* main.approve_action turns into a 404 (l.280-281).
NotFound(rq) == [rq EXCEPT !.pc = "done", !.status = 404]

\* POST /approve arrives; the SELECT of the Action returns (l.300-306).
ApLoad(r, action_id, approved, channel, notes) ==
    LET rq == [Idle EXCEPT !.kind = "approve", !.action_id = action_id,
                           !.approved = approved, !.channel = channel,
                           !.notes = notes]
    IN  /\ FreeSlot(r)
        /\ n_approve < MaxApprove
        /\ n_approve' = n_approve + 1
        /\ req' = [req EXCEPT ![r] =
              IF action_id \notin 1..Len(actions)
              THEN NotFound(rq)
              ELSE [rq EXCEPT !.pc = IF approved THEN "ap_session" ELSE "ap_commit",
                              !.act = actions[action_id],
                              !.approval = Decision(approved, channel, notes, now)]]
        /\ UNCHANGED <<tool_call, now, config_policy, risk_engine, sessions, actions,
                       near_misses, webhooks, active_connections>>

\* session.cumulative_risk += action.risk_score (l.320-321), on the loaded
\* Session object.
Charge(sess, risk_score, t) ==
    [sess EXCEPT !.cumulative_risk = @ + risk_score, !.last_activity = t]

\* The SELECT of the session returns (l.315-321).
ApSession(r) ==
    LET rq  == req[r]
        row == sessions[rq.act.session_id]
    IN  /\ rq.pc = "ap_session"
        /\ req' = [req EXCEPT ![r] =
              IF row.exists
              THEN [rq EXCEPT !.pc = "ap_commit", !.touch = TRUE, !.sess0 = row,
                              !.sess = Charge(row, rq.act.risk_score, now)]
              ELSE [rq EXCEPT !.pc = "ap_commit"]]
        /\ UNCHANGED <<tool_call, now, config_policy, risk_engine, sessions, actions,
                       near_misses, webhooks, active_connections, n_approve>>

\* The UPDATE a flush emits for the Action: the approval attributes whose
\* value differs from the loaded one.
FlushApproval(row, loaded, obj) ==
    [approved           |-> IF obj.approved # loaded.approved
                            THEN obj.approved ELSE row.approved,
     approval_timestamp |-> IF obj.approval_timestamp # loaded.approval_timestamp
                            THEN obj.approval_timestamp ELSE row.approval_timestamp,
     approval_channel   |-> IF obj.approval_channel # loaded.approval_channel
                            THEN obj.approval_channel ELSE row.approval_channel,
     approval_notes     |-> IF obj.approval_notes # loaded.approval_notes
                            THEN obj.approval_notes ELSE row.approval_notes]

\* The UPDATE a flush emits for the Session.
FlushSession(row, loaded, obj) ==
    [row EXCEPT
        !.cumulative_risk = IF obj.cumulative_risk # loaded.cumulative_risk
                            THEN obj.cumulative_risk ELSE @,
        !.last_activity   = IF obj.last_activity # loaded.last_activity
                            THEN obj.last_activity ELSE @]

\* await db.commit() (l.323): both objects are flushed; the events follow.
ApCommit(r) ==
    LET rq == req[r]
        id == rq.action_id
        sid == rq.act.session_id
    IN  /\ rq.pc = "ap_commit"
        /\ actions' = [actions EXCEPT ![id].approval =
              FlushApproval(actions[id].approval, rq.act.approval, rq.approval)]
        /\ sessions' = IF rq.touch
                       THEN [sessions EXCEPT ![sid] =
                               FlushSession(sessions[sid], rq.sess0, rq.sess)]
                       ELSE sessions
        /\ Finish(r, [rq EXCEPT !.todo = ApproveDispatch(rq.approved)])
        /\ UNCHANGED <<tool_call, now, config_policy, risk_engine, near_misses, webhooks,
                       n_approve>>

\* --------------------------------------------------------------- near-miss
\* POST /near-miss: the INSERT of record_near_miss commits (l.351-363); the
\* events follow.
NmInsert(r, session_id, action, severity) ==
    LET rq == [Idle EXCEPT !.kind = "near_miss", !.session_id = session_id,
                           !.action = action, !.severity = severity,
                           !.new_id = Len(near_misses) + 1,
                           !.todo = NearMissDispatch]
    IN  /\ FreeSlot(r)
        /\ near_misses' = Append(near_misses,
              [session_id |-> session_id, action |-> action,
               actual_severity |-> severity, created_at |-> now])
        /\ Finish(r, rq)
        /\ UNCHANGED <<tool_call, now, config_policy, risk_engine, sessions, actions,
                       webhooks, n_approve>>

\* ------------------------------------------------------------------ policy
\* POST /config/reload: reload_config() replaces the policy of the global
\* Config and main builds a new RiskEngine from it, with no await between;
\* the handler answers 200.
Reload(r, policy) ==
    /\ req[r].pc = "idle"
    /\ config_policy' = policy
    /\ risk_engine' = policy
    /\ req' = [req EXCEPT ![r] =
          [Idle EXCEPT !.kind = "reload", !.pc = "done", !.status = 200]]
    /\ UNCHANGED <<tool_call, now, sessions, actions, near_misses, webhooks,
                   active_connections, n_approve>>

\* A failed load that falls back to the built-in default policy.
DefaultsOnFailure(policy) == PolicyA

\* Config.reload_policy when load_policy raises (config.py l.117): the
\* assignment is not reached and the policy held stays.
KeptOnFailure(policy) == policy

\* The policy file does not load: the exception leaves Config.policy and
\* main.risk_engine as they were and the handler answers 500 (l.126-128).
ReloadFail(r) ==
    /\ req[r].pc = "idle"
    /\ config_policy' = KeptOnFailure(config_policy)
    /\ risk_engine' = KeptOnFailure(risk_engine)
    /\ req' = [req EXCEPT ![r] =
          [Idle EXCEPT !.kind = "reload", !.pc = "done", !.status = 500]]
    /\ UNCHANGED <<tool_call, now, sessions, actions, near_misses, webhooks,
                   active_connections, n_approve>>

\* Time passes.
Tick(max) ==
    /\ now < max
    /\ now' = now + 1
    /\ UNCHANGED <<tool_call, config_policy, risk_engine, sessions, actions, near_misses,
                   webhooks, active_connections, req, n_approve>>

\* ---------------------------------------------------- core specification
\* The engine with no webhook registered and no dashboard connected.
EvalInput(session_id, action, target, metadata) ==
    [session_id |-> session_id, action |-> action, target |-> target,
     metadata |-> metadata]

MetaHigh == Meta([financial |-> BoolV(TRUE), amount |-> NumV(15000),
                  scope |-> StrV("global"), automated |-> BoolV(TRUE)])

\* The evaluate requests of the core specification: a low-risk action on a
\* target, a high-risk one without target, one that the destructive rule
\* matches, and a high-risk one in another session.
CoreInputs ==
    { EvalInput("s1", <<"m">>, Target(<<"u">>), NoMeta),
      EvalInput("s1", <<"m">>, NoTarget, MetaHigh),
      EvalInput("s1", <<"d", "b">>, Target(<<"u">>), NoMeta),
      EvalInput("s2", <<"m">>, Target(<<"u">>), MetaHigh) }

\* The near-miss requests: (action, actual_severity).
CoreNearMisses == { <<(<<"m">>), 80>>, <<(<<"m">>), 5>> }

Init == InitWith(PolicyA, [w \in WebhookIds |-> NoWebhook], <<>>)

\* The evaluate calls received so far: the stored Actions and the calls in
\* flight.
EvalsStarted ==
    Len(actions) + Cardinality({q \in Reqs : req[q].kind = "evaluate"})

\* Concurrent requests under one policy: evaluations, approvals and near-miss
\* reports of up to MaxReq requests in flight interleave at their awaits.
Next ==
    \/ \E r \in Reqs, i \in CoreInputs :
          /\ EvalsStarted < MaxActions
          /\ EvSession(r, i.session_id, i.action, i.target, i.metadata)
    \/ \E r \in Reqs : EvCreate(r)
    \/ \E r \in Reqs : EvRefresh(r)
    \/ \E r \in Reqs : EvNearMiss(r)
    \/ \E r \in Reqs : EvCompound(r)
    \/ \E r \in Reqs : EvCompound2(r)
    \/ \E r \in Reqs : EvInsert(r)
    \/ \E r \in Reqs, id \in 1..MaxActions, ok \in BOOLEAN :
          ApLoad(r, id, ok, "rest", "")
    \/ \E r \in Reqs : ApSession(r)
    \/ \E r \in Reqs : ApCommit(r)
    \/ \E r \in Reqs, n \in CoreNearMisses :
          /\ Len(near_misses) < MaxNearMiss
          /\ NmInsert(r, "s1", n[1], n[2])
    \/ \E r \in Reqs : HooksSelect(r)
    \/ \E r \in Reqs : Return(r)

Spec == Init /\ [][Next]_vars

-----------------------------------------------------------------------------
\* Policy reloads and the passage of time around one request in flight: the
\* evaluations and approvals are handled in slot 1, the reloads in slot 2.

PolicyInputs ==
    { EvalInput("s1", <<"m">>, Target(<<"u">>), NoMeta),
      EvalInput("s1", <<"m">>, NoTarget, MetaHigh),
      EvalInput("s1", <<"d", "b">>, Target(<<"u">>), NoMeta),
      EvalInput("s1", <<"d", "b">>, NoTarget, MetaHigh),
      EvalInput("s2", <<"m">>, Target(<<"u">>), MetaHigh) }

InitPolicy == \E p \in Policies :
    InitWith(p, [w \in WebhookIds |-> NoWebhook], <<>>)

NextPolicy ==
    \/ \E i \in PolicyInputs :
          /\ EvalsStarted < MaxActions
          /\ EvSession(1, i.session_id, i.action, i.target, i.metadata)
    \/ EvCreate(1)
    \/ EvRefresh(1)
    \/ EvNearMiss(1)
    \/ EvCompound(1)
    \/ EvCompound2(1)
    \/ EvInsert(1)
    \/ \E id \in 1..MaxActions, ok \in BOOLEAN : ApLoad(1, id, ok, "rest", "")
    \/ ApSession(1)
    \/ ApCommit(1)
    \/ HooksSelect(1)
    \/ Return(1)
    \/ \E p \in Policies : Reload(2, p)
    \/ ReloadFail(2)
    \/ Return(2)
    \/ Tick(MaxTime)

SpecPolicy == InitPolicy /\ [][NextPolicy]_vars


-----------------------------------------------------------------------------
\* Properties of the session budget under concurrent approvals (Spec).

\* The summed risk_score of those Actions 1..n of session s whose id is in
\* ids, each Action taken once.
RECURSIVE RiskOf(_, _, _)
RiskOf(s, n, ids) ==
    IF n = 0 THEN 0
    ELSE RiskOf(s, n - 1, ids) +
         (IF actions[n].session_id = s /\ n \in ids
          THEN actions[n].risk_score ELSE 0)

IsDecided(row)  == row.approval.approved # "undecided"
IsApproved(row) == row.approval.approved = "approved"
DecidedIds  == {id \in 1..Len(actions) : IsDecided(actions[id])}
ApprovedIds == {id \in 1..Len(actions) : IsApproved(actions[id])}

\* Handler r commits its approval in this step.
ApprovalCommits(r) == req[r].pc = "ap_commit" /\ req'[r].pc # "ap_commit"

\* C1: whatever approve calls were made, a session has been charged the
\* risk_score of each of its Actions at most once: its cumulative_risk never
\* exceeds the summed risk_score of its Actions that somebody decided.
C1_ChargedAtMostOnce ==
    \A s \in SessionIds :
        sessions[s].cumulative_risk <= RiskOf(s, Len(actions), DecidedIds)

\* C2: the approval fields of an Action are written at most once: once they
\* are set no step changes them, and no approve call commits against an
\* Action that is already decided (it has to end in an error instead).
C2_ApprovalWrittenOnce ==
    [][ /\ \A id \in 1..Len(actions) :
              IsDecided(actions[id]) => actions'[id].approval = actions[id].approval
        /\ \A r \in Reqs :
              ApprovalCommits(r) => ~IsDecided(actions[req[r].action_id]) ]_vars

\* C3: cumulative_risk is never negative and never decreases, and the only
\* step that changes it is the commit of an approve(approved=true) of an
\* Action of that session.
C3_CumulativeRiskMonotone ==
    /\ [](\A s \in SessionIds : sessions[s].cumulative_risk >= 0)
    /\ [][ \A s \in SessionIds :
             /\ sessions'[s].cumulative_risk >= sessions[s].cumulative_risk
             /\ sessions'[s].cumulative_risk # sessions[s].cumulative_risk =>
                   \E r \in Reqs : /\ ApprovalCommits(r)
                                   /\ req[r].approved
                                   /\ req[r].act.session_id = s ]_vars

\* C4: no increment is lost: a session's cumulative_risk is at least the
\* summed risk_score of its Actions that stand approved, however the loads
\* and commits of the approvals interleaved.
C4_NoLostIncrement ==
    \A s \in SessionIds :
        sessions[s].cumulative_risk >= RiskOf(s, Len(actions), ApprovedIds)


-----------------------------------------------------------------------------
\* Properties of the checkpoint decision (SpecPolicy).

\* Handler r is an evaluate whose engine call has returned its decision.
HasDecided(r) ==
    /\ req[r].kind = "evaluate"
    /\ \/ req[r].pc \in {"ev_compound2", "ev_insert", "hooks_select", "deliver",
                         "ws_send"}
       \/ req[r].pc = "done" /\ req[r].status = 200

\* Handler r is an evaluate that has fixed the is_compound and compound_count
\* it stores and reports.
HasReported(r) == HasDecided(r) /\ req[r].pc # "ev_compound2"

\* Everything evaluate r computed is what policy p yields: the impact, the
\* engine's compound verdict (for some number of counted rows), the decision,
\* and the is_compound/compound_count of main for the rows main counted.
DerivedFrom(r, p) ==
    LET rq == req[r]
    IN  /\ rq.impact = _calculate_impact(p, rq.action, rq.metadata)
        /\ \E n \in 0..MaxActions : rq.engine_det = _detect_compound_action(p, n)
        /\ [needs |-> rq.needs_checkpoint, reason |-> rq.reason] =
              Decide(p, rq.action, rq.risk_score,
                     rq.sess, rq.engine_det)
        /\ [is_compound |-> rq.is_compound, compound_count |-> rq.compound_count] =
              _detect_compound_action(p,
                  RecentCount(actions, rq.session_id, rq.target, rq.cutoff))

\* C5: an evaluate uses one policy snapshot: when it is about to store its
\* Action, what it computed and decided and the is_compound/compound_count
\* it stores and reports all come from the same policy, the old one or the
\* new one.
C5_SinglePolicySnapshot ==
    \A r \in Reqs :
        /\ req[r].kind = "evaluate"
        /\ req[r].pc = "ev_insert"
        /\ TargetTruthy(req[r].target)
        => \E p \in Policies : DerivedFrom(r, p)

\* The first rule of policy p, in list order, whose pattern matches the
\* action name (0: no rule matches).
FirstMatch(p, action) ==
    LET hit(i) == ReMatch(p.action_rules[i].pattern, action)
    IN  IF \E i \in 1..Len(p.action_rules) : hit(i)
        THEN CHOOSE i \in 1..Len(p.action_rules) :
                 hit(i) /\ \A j \in 1..(i - 1) : ~hit(j)
        ELSE 0

\* The rule that decides for the action demands a checkpoint.
AlwaysRule(p, action) ==
    FirstMatch(p, action) # 0 /\
    p.action_rules[FirstMatch(p, action)].always_checkpoint

Contains(reason, part) == \E i \in 1..Len(reason) : reason[i] = part

\* The threshold and budget reasons evaluate r could give.
ThresholdPart(r) ==
    HighRiskReason(req[r].risk_score, req[r].policy.checkpoint_trigger)
BudgetPart(r) ==
    BudgetReason(req[r].sess.cumulative_risk + req[r].risk_score,
                 req[r].sess.risk_budget)

C8_CompoundNeedsCheckpoint ==
    /\ \A r \in Reqs :
          HasReported(r) /\ req[r].is_compound => req[r].needs_checkpoint
    /\ \A id \in 1..Len(actions) :
          actions[id].is_compound => actions[id].needs_checkpoint


-----------------------------------------------------------------------------
\* Event dispatch: two webhooks registered through POST /config/webhooks and
\* two dashboards connected, one request in flight.

EventHooks ==
    [w \in WebhookIds |->
        IF w = 1
        THEN NewWebhook({"action_evaluated", "checkpoint_triggered",
                         "action_approved"}, "k")
        ELSE NewWebhook({"checkpoint_triggered", "action_rejected",
                         "near_miss_recorded"}, "")]

EventInputs ==
    { EvalInput("s1", <<"m">>, NoTarget, NoMeta),
      EvalInput("s1", <<"d", "b">>, NoTarget, NoMeta) }

\* Time passes while handler r delivers to webhooks (the HTTP posts and the
\* asyncio.sleep of l.142 take time).
Sleep(r) ==
    /\ req[r].pc = "deliver"
    /\ Tick(MaxHookTime)

InitEvents == InitWith(PolicyA, EventHooks, <<"c1", "c2">>)

\* The requests received so far (none is in flight when one arrives).
EventsStarted == Len(actions) + Len(near_misses) + n_approve

NextEvents ==
    \/ \E i \in EventInputs :
          /\ EventsStarted < MaxEvents
          /\ EvSession(1, i.session_id, i.action, i.target, i.metadata)
    \/ EvCreate(1)
    \/ EvRefresh(1)
    \/ EvNearMiss(1)
    \/ EvInsert(1)
    \/ \E id \in 1..MaxActions, ok \in BOOLEAN :
          EventsStarted < MaxEvents /\ ApLoad(1, id, ok, "rest", "")
    \/ ApSession(1)
    \/ ApCommit(1)
    \/ /\ EventsStarted < MaxEvents
       /\ Len(near_misses) < MaxNearMiss
       /\ NmInsert(1, "s1", <<"m">>, 80)
    \/ HooksSelect(1)
    \/ \E w \in WebhookIds, ok \in BOOLEAN : DeliverPost(1, w, ok)
    \/ \E w \in WebhookIds : DeliverCommit(1, w)
    \/ \E ok \in BOOLEAN : WsSend(1, ok)
    \/ Return(1)
    \/ Sleep(1)

SpecEvents == InitEvents /\ [][NextEvents]_vars


-----------------------------------------------------------------------------
\* Properties of the event dispatch (SpecEvents).

\* Handler r has ended successfully and not yet returned its response.
Completed(r) == req[r].pc = "done" /\ req[r].status = 200

\* The events a request emits, in order.
Emitted(rq) ==
    CASE rq.kind = "evaluate" ->
            IF rq.needs_checkpoint
            THEN <<"checkpoint_triggered", "action_evaluated">>
            ELSE <<"action_evaluated">>
      [] rq.kind = "approve" ->
            IF rq.approved THEN <<"action_approved">> ELSE <<"action_rejected">>
      [] rq.kind = "near_miss" -> <<"near_miss_recorded">>
      [] OTHER -> <<>>

\* The emitted events without action_evaluated.
RECURSIVE NotEvaluated(_)
NotEvaluated(events) ==
    IF events = <<>> THEN <<>>
    ELSE IF Head(events) = "action_evaluated" THEN NotEvaluated(Tail(events))
    ELSE <<Head(events)>> \o NotEvaluated(Tail(events))

Range(seq) == {seq[i] : i \in 1..Len(seq)}

\* Handler r has posted the event to webhook w / sent it to connection c.
PostedTo(r, event, w) ==
    \E i \in 1..Len(req[r].sent) :
        /\ req[r].sent[i].sink = "hook"
        /\ req[r].sent[i].event = event
        /\ req[r].sent[i].dest = w
SentTo(r, event, c) ==
    \E i \in 1..Len(req[r].sent) :
        /\ req[r].sent[i].sink = "ws"
        /\ req[r].sent[i].event = event
        /\ req[r].sent[i].dest = c

HookPosts(r, w) ==
    SelectSeq(req[r].sent, LAMBDA m : m.sink = "hook" /\ m.dest = w)

-----------------------------------------------------------------------------
\* Webhooks under concurrent requests: near-miss reports of up to MaxReq
\* handlers in flight deliver near_miss_recorded to webhook 1, which has
\* failed FailedBefore times in a row already; webhook 2 is subscribed to
\* another event; webhooks are deleted.

HookRows(failed) ==
    [w \in WebhookIds |->
        IF w = 1
        THEN [NewWebhook({"near_miss_recorded"}, "k") EXCEPT !.failure_count = failed]
        ELSE NewWebhook({"action_rejected"}, "")]

InitHooks == \E failed \in {0, DisableAfter - 1} :
    InitWith(PolicyA, HookRows(failed), <<>>)

NextHooks ==
    \/ \E r \in Reqs :
          /\ Len(near_misses) < MaxEvents
          /\ NmInsert(r, "s1", <<"m">>, 80)
    \/ \E r \in Reqs : HooksSelect(r)
    \/ \E r \in Reqs, w \in WebhookIds, ok \in BOOLEAN : DeliverPost(r, w, ok)
    \/ \E r \in Reqs, w \in WebhookIds : DeliverCommit(r, w)
    \/ \E r \in Reqs : Return(r)
    \/ \E r \in Reqs : Sleep(r)
    \/ \E w \in WebhookIds : DeleteWebhook(w)

SpecHooks == InitHooks /\ [][NextHooks]_vars

\* Handler r commits in this step what the delivery to webhook w recorded.
Flushes(r, w) ==
    /\ req[r].pc = "deliver"
    /\ req[r].deliv[w].dirty
    /\ ~req'[r].deliv[w].dirty

\* The last HTTP attempt of handler r to webhook w.
LastPost(r, w) == HookPosts(r, w)[Len(HookPosts(r, w))]

\* C11: when a delivery commits after a successful attempt, the webhook's
\* failure_count is 0 and last_triggered is the time of the success; when it
\* commits after its attempts all failed, failure_count is one more than it
\* was, whatever other requests deliver to the same webhook meanwhile; and a
\* webhook whose failure_count is 10 or more is disabled.
C11_FailureCount ==
    /\ [](\A w \in WebhookIds :
             webhooks[w].exists /\ webhooks[w].failure_count >= DisableAfter
                => ~webhooks[w].enabled)
    /\ [][\A r \in Reqs, w \in WebhookIds :
             Flushes(r, w) =>
                IF LastPost(r, w).ok
                THEN /\ webhooks'[w].failure_count = 0
                     /\ webhooks'[w].last_triggered = LastPost(r, w).time
                ELSE webhooks'[w].failure_count = webhooks[w].failure_count + 1
         ]_vars

\* The SELECT of trigger_webhooks returns to handler r in this step.
Dispatches(r) == req[r].pc = "hooks_select" /\ req'[r] # req[r]

\* C12: when an event is dispatched, the deliveries started are exactly those
\* to the webhooks that exist, are enabled and are subscribed to the event at
\* that moment; and a handler posts an event only to a webhook it started a
\* delivery to, whose subscription set contains the event.
C12_PostsOnlyToSubscribed ==
    /\ [][\A r \in Reqs : Dispatches(r) =>
             \A w \in WebhookIds :
                 (req'[r].pc = "deliver" /\ req'[r].deliv[w].st # "none")
                    <=> /\ webhooks[w].exists
                        /\ webhooks[w].enabled
                        /\ Head(req[r].todo).event \in webhooks[w].events
         ]_vars
    /\ [](\A r \in Reqs, w \in WebhookIds :
             \A i \in 1..Len(HookPosts(r, w)) :
                 /\ req[r].deliv[w].st # "none"
                 /\ HookPosts(r, w)[i].event \in req[r].deliv[w].loaded.events)

\* Two handlers have dispatched near_miss_recorded: one posted it to webhook 1,
\* whose tenth failure disabled it; the other, dispatching after that, posted
\* nothing; webhook 2, never subscribed to the event, is deleted.
C12_Witness ==
    \E r, q \in Reqs :
        /\ req[r].pc = "done" /\ Len(HookPosts(r, 1)) = max_retries
        /\ req[q].pc = "done" /\ req[q].triggered = <<"near_miss_recorded">>
        /\ req[q].sent = <<>>
        /\ webhooks[1].exists /\ ~webhooks[1].enabled
        /\ ~webhooks[2].exists

-----------------------------------------------------------------------------
\* What the response of a handler is built from (EvaluateResponse,
\* ApprovalResponse, NearMissResponse).
ResponseFields(rq) ==
    <<rq.kind, rq.new_id, rq.action_id, rq.approved, rq.impact, rq.breadth,
      rq.probability, rq.risk_score, rq.needs_checkpoint, rq.reason,
      rq.remaining, rq.is_compound, rq.compound_count>>

\* C13: a step of a handler that is delivering to webhooks (a POST that
\* succeeds or fails, a commit of what the delivery recorded) changes no
\* Action, Session or NearMiss record and no field of the response; and a
\* handler that has triggered webhooks ends with status 200 having broadcast
\* all its events, whatever became of the deliveries.
C13_DeliveryFailureNotSurfaced ==
    /\ [][\A r \in Reqs :
             (req[r].pc = "deliver" /\ req'[r] # req[r]) =>
                /\ UNCHANGED <<actions, sessions, near_misses>>
                /\ ResponseFields(req'[r]) = ResponseFields(req[r])
                /\ req'[r].status \in {0, 200}
         ]_vars
    /\ [](\A r \in Reqs :
             (req[r].pc = "done" /\ req[r].triggered # <<>>) =>
                /\ req[r].status = 200
                /\ req[r].bcast = Emitted(req[r]))

\* An evaluate that decided to checkpoint has ended with status 200 after
\* every attempt to both webhooks failed.
C13_Witness ==
    \E r \in Reqs :
        /\ Completed(r)
        /\ req[r].kind = "evaluate"
        /\ \A w \in WebhookIds :
              /\ Len(HookPosts(r, w)) = max_retries
              /\ \A i \in 1..max_retries : ~HookPosts(r, w)[i].ok
        /\ webhooks[1].failure_count = 1 /\ webhooks[2].failure_count = 1

-----------------------------------------------------------------------------
\* The live subscribers under concurrency: evaluations that checkpoint (two
\* broadcasts each) and near-miss reports (one broadcast) of up to MaxReq
\* handlers in flight, while dashboards connect and disconnect.  No webhook
\* is registered.

LiveInputs == { EvalInput("s1", <<"d", "b">>, NoTarget, NoMeta) }

InitLive == InitWith(PolicyA, [w \in WebhookIds |-> NoWebhook], <<"c1", "c2">>)

\* The requests received so far.
LiveStarted == EvalsStarted + Len(near_misses)

NextLive ==
    \/ \E r \in Reqs, i \in LiveInputs :
          /\ LiveStarted < MaxEvents
          /\ EvSession(r, i.session_id, i.action, i.target, i.metadata)
    \/ \E r \in Reqs : EvCreate(r)
    \/ \E r \in Reqs : EvRefresh(r)
    \/ \E r \in Reqs : EvNearMiss(r)
    \/ \E r \in Reqs : EvInsert(r)
    \/ \E r \in Reqs :
          /\ LiveStarted < MaxEvents
          /\ NmInsert(r, "s1", <<"m">>, 80)
    \/ \E r \in Reqs : HooksSelect(r)
    \/ \E r \in Reqs, ok \in BOOLEAN : WsSend(r, ok)
    \/ \E r \in Reqs : Return(r)
    \/ WsConnect("c3")
    \/ \E c \in ConnIds : WsDisconnect(c)

SpecLive == InitLive /\ [][NextLive]_vars

\* The broadcast of handler r ends in this step: the send it was suspended
\* on returns and the list has no further element.
BroadcastEnds(r) ==
    /\ req[r].pc = "ws_send"
    /\ req'[r] # req[r]
    /\ req'[r].todo # req[r].todo

\* How many times a handler has sent the event to connection c.
SendCount(rq, event, c) ==
    Len(SelectSeq(rq.sent,
            LAMBDA m : m.sink = "ws" /\ m.event = event /\ m.dest = c))

\* C14: when a broadcast ends, every subscriber that was in the list when it
\* started and is still in the list has been sent the event exactly once,
\* whatever was appended to or removed from the list meanwhile.
C14_BroadcastSnapshot ==
    [][\A r \in Reqs : BroadcastEnds(r) =>
          \A c \in Range(req[r].bc_start) \cap Range(active_connections) :
              SendCount(req'[r], Head(req[r].todo).event, c) = 1
      ]_vars

\* The connections to which a send of the event by this handler failed.
FailedSends(rq, event) ==
    {rq.sent[i].dest : i \in {j \in 1..Len(rq.sent) :
        rq.sent[j].sink = "ws" /\ rq.sent[j].event = event /\ ~rq.sent[j].ok}}

\* A send of handler r returns in this step.
SendReturns(r) ==
    /\ req[r].pc = "ws_send"
    /\ Len(req'[r].sent) = Len(req[r].sent) + 1

\* C15: when a broadcast ends, no connection a send of it failed on is in
\* the list, and a broadcast the same handler makes afterwards sends nothing
\* to such a connection; a failed send is followed by the send to the next
\* element of the list, if there is one; and a handler some of whose sends
\* failed ends with status 200.
C15_DeadSubscriberDropped ==
    /\ [][\A r \in Reqs : BroadcastEnds(r) =>
             \A c \in FailedSends(req'[r], Head(req[r].todo).event) :
                 c \notin Range(active_connections')
         ]_vars
    /\ [][\A r \in Reqs :
             (SendReturns(r) /\ ~req'[r].sent[Len(req'[r].sent)].ok
                 /\ req[r].bc_idx < Len(active_connections)) =>
                /\ req'[r].pc = "ws_send"
                /\ req'[r].bc_cur = active_connections[req[r].bc_idx + 1]
                /\ req'[r].todo = req[r].todo
         ]_vars
    /\ [](\A r \in Reqs :
             /\ \A i, j \in 1..Len(req[r].sent) :
                   (i < j /\ req[r].sent[i].sink = "ws" /\ ~req[r].sent[i].ok
                      /\ req[r].sent[j].event # req[r].sent[i].event)
                   => req[r].sent[j].dest # req[r].sent[i].dest
             /\ (req[r].pc = "done" /\ \E e \in Range(req[r].bcast) :
                                          FailedSends(req[r], e) # {})
                   => req[r].status = 200)

\* An evaluate has ended with status 200: its first broadcast failed on c1
\* and went on to c2; its second broadcast reached c2 and not c1, which is
\* no longer in the list.
C15_Witness ==
    \E r \in Reqs :
        /\ Completed(r)
        /\ req[r].kind = "evaluate"
        /\ FailedSends(req[r], "checkpoint_triggered") = {"c1"}
        /\ SendCount(req[r], "checkpoint_triggered", "c2") = 1
        /\ SendCount(req[r], "action_evaluated", "c2") = 1
        /\ SendCount(req[r], "action_evaluated", "c1") = 0
        /\ "c1" \notin Range(active_connections)

-----------------------------------------------------------------------------
\* POST /approve arrives at handler r in this step.
ApproveArrives(r) == req[r].pc = "idle" /\ req'[r].kind = "approve"

\* C16: an approve whose action id no Action has ends at once with status
\* 404 and changes no Session, Action, NearMiss or Webhook record and not the
\* subscriber list; and a handler that answers 404 has handed no event to the
\* webhooks or to the live subscribers.
C16_UnknownActionNotFound ==
    /\ [][\A r \in Reqs :
             (ApproveArrives(r) /\ req'[r].action_id \notin 1..Len(actions)) =>
                /\ req'[r].pc = "done"
                /\ req'[r].status = 404
                /\ UNCHANGED <<sessions, actions, near_misses, webhooks,
                               active_connections>>
         ]_vars
    /\ [](\A r \in Reqs :
             (req[r].kind = "approve" /\ req[r].status = 404) =>
                /\ req[r].pc = "done"
                /\ req[r].todo = <<>>
                /\ req[r].triggered = <<>>
                /\ req[r].bcast = <<>>
                /\ req[r].sent = <<>>)

\* approve(2, approved = true) has answered 404 while Action 1 exists, a
\* webhook subscribed to action_approved is enabled and dashboards are
\* connected.
C16_Witness ==
    \E r \in Reqs :
        /\ req[r].kind = "approve" /\ req[r].status = 404
        /\ req[r].action_id = 2 /\ req[r].approved
        /\ Len(actions) = 1
        /\ sessions[actions[1].session_id].exists
        /\ Subscribed("action_approved") # {}
        /\ active_connections # <<>>

-----------------------------------------------------------------------------
\* Properties of the policy in force (SpecPolicy).

\* POST /evaluate arrives at handler r in this step.
EvaluateArrives(r) == req[r].pc = "idle" /\ req'[r].kind = "evaluate"

\* C17: a reload whose policy file does not load answers 500 and leaves the
\* policy of the configuration and of the engine as they were; the engine
\* always holds the policy of the configuration, and an evaluate that arrives
\* runs under the policy the engine holds then.
C17_FailedReloadKeepsPolicy ==
    /\ [][\A r \in Reqs : ReloadFail(r) =>
             /\ req'[r].kind = "reload" /\ req'[r].status = 500
             /\ UNCHANGED <<config_policy, risk_engine>>
         ]_vars
    /\ [][\A r \in Reqs : EvaluateArrives(r) => req'[r].policy = risk_engine]_vars
    /\ [](risk_engine = config_policy)

\* A reload has answered 500 while policy B was in force, and an evaluate in
\* flight runs under policy B.
C17_Witness ==
    \E r, q \in Reqs :
        /\ req[r].kind = "reload" /\ req[r].status = 500
        /\ risk_engine = PolicyB /\ config_policy = PolicyB
        /\ req[q].kind = "evaluate" /\ req[q].policy = PolicyB
        /\ req[q].pc = "ev_create"

\* C18: a Session record comes into being only in the INSERT of an evaluate
\* for that session id, with the session_budget of the policy that evaluate
\* runs under and cumulative_risk 0; an evaluate that finds no Session for
\* its id goes on to create one, so every stored Action has its Session; and
\* a Session that exists keeps existing with the same risk_budget, whatever
\* the policy becomes.
C18_SessionBudgetFixed ==
    /\ [][\A s \in SessionIds :
             /\ sessions[s].exists =>
                   /\ sessions'[s].exists
                   /\ sessions'[s].risk_budget = sessions[s].risk_budget
             /\ (~sessions[s].exists /\ sessions'[s].exists) =>
                   /\ \E r \in Reqs :
                         /\ req[r].kind = "evaluate"
                         /\ req[r].pc = "ev_create"
                         /\ req[r].session_id = s
                         /\ req'[r].pc = "ev_refresh"
                         /\ sessions'[s].risk_budget = req[r].policy.session_budget
                   /\ sessions'[s].cumulative_risk = 0
         ]_vars
    /\ [][\A r \in Reqs :
             (EvaluateArrives(r) /\ ~sessions[req'[r].session_id].exists)
                => req'[r].pc = "ev_create"
         ]_vars
    /\ [](\A id \in 1..Len(actions) : sessions[actions[id].session_id].exists)

\* Session s1 was created under policy A and charged by an approval; policy
\* B, with another session_budget, is in force, and s1 has the budget of A.
C18_Witness ==
    /\ risk_engine = PolicyB
    /\ PolicyB.session_budget # PolicyA.session_budget
    /\ sessions["s1"].exists
    /\ sessions["s1"].risk_budget = PolicyA.session_budget
    /\ sessions["s1"].cumulative_risk > 0
    /\ \E r \in Reqs : req[r].kind = "evaluate" /\ req[r].session_id = "s1"
                          /\ req[r].policy = PolicyB /\ req[r].pc = "ev_insert"

-----------------------------------------------------------------------------
\* Compound detection: up to MaxSuccessive evaluations, one after the other,
\* on a target, on another session, with an empty target and with none, under
\* either policy, while time passes.

CompoundInputs ==
    { EvalInput("s1", <<"m">>, Target(<<"u">>), NoMeta),
      EvalInput("s1", <<"t">>, Target(<<"u">>), NoMeta),
      EvalInput("s2", <<"m">>, Target(<<"u">>), NoMeta),
      EvalInput("s1", <<"m">>, Target(<<>>), NoMeta),
      EvalInput("s1", <<"m">>, NoTarget, NoMeta) }

InitCompound == \E p \in Policies :
    InitWith(p, [w \in WebhookIds |-> NoWebhook], <<>>)

NextCompound ==
    \/ \E i \in CompoundInputs :
          /\ EvalsStarted < MaxSuccessive
          /\ EvSession(1, i.session_id, i.action, i.target, i.metadata)
    \/ EvCreate(1)
    \/ EvRefresh(1)
    \/ EvNearMiss(1)
    \/ EvCompound(1)
    \/ EvCompound2(1)
    \/ EvInsert(1)
    \/ Return(1)
    \/ Tick(MaxCompoundTime)

SpecCompound == InitCompound /\ [][NextCompound]_vars

\* The stored Actions of the session and target of evaluate rq that were
\* created at or after time t.
PriorSince(rq, t) ==
    {id \in 1..Len(actions) :
        /\ actions[id].session_id = rq.session_id
        /\ actions[id].target = rq.target
        /\ actions[id].created_at >= t}

\* What an evaluate reports, and stores, about compounding.
Reported(rq) == <<rq.is_compound, rq.compound_count>>
Stored(row)  == <<row.is_compound, row.compound_count>>

\* Rows 1..3 are on one session and one (non-empty) target and lie within the
\* compound time window of policy p.
ThreeInWindow(p) ==
    /\ Len(actions) >= 3
    /\ TargetTruthy(actions[1].target)
    /\ \A id \in 2..3 :
          /\ actions[id].session_id = actions[1].session_id
          /\ actions[id].target = actions[1].target
    /\ actions[3].created_at - actions[1].created_at <= p.time_window

\* C19: main's detection for an evaluate with a target takes its window from
\* the policy in force and the time then; with n the number of stored Actions
\* of the same session and target, whatever their action name, created in
\* that window, it reports (true, n + 1) if n >= min_count - 1 and (false, 1)
\* otherwise, and the Action is stored with what was reported; under the
\* default compound settings (policy A) three Actions on one target within
\* the window are stored as (false, 1), (true, 2), (true, 3).
C19_CompoundDetection ==
    /\ [][\A r \in Reqs :
             (req[r].pc = "ev_compound" /\ req'[r].pc = "ev_compound2") =>
                /\ req'[r].policy2 = risk_engine
                /\ req'[r].cutoff = now - risk_engine.time_window
         ]_vars
    /\ [][\A r \in Reqs :
             (req[r].pc = "ev_compound2" /\ req'[r].pc = "ev_insert") =>
                LET n == Cardinality(PriorSince(req[r], req[r].cutoff))
                IN  Reported(req'[r]) =
                       IF n >= req[r].policy2.min_count - 1
                       THEN <<TRUE, n + 1>> ELSE <<FALSE, 1>>
         ]_vars
    /\ [][\A r \in Reqs :
             (req[r].pc = "ev_insert" /\ req'[r].pc # "ev_insert") =>
                /\ Len(actions') = Len(actions) + 1
                /\ Stored(actions'[Len(actions')]) = Reported(req[r])
                /\ Reported(req'[r]) = Reported(req[r])
         ]_vars
    /\ []((config_policy = PolicyA /\ ThreeInWindow(PolicyA)) =>
             /\ Stored(actions[1]) = <<FALSE, 1>>
             /\ Stored(actions[2]) = <<TRUE, 2>>
             /\ Stored(actions[3]) = <<TRUE, 3>>)

\* Under policy A three Actions of different names on one target were stored
\* within the window, and time went on.
C19_Witness ==
    /\ config_policy = PolicyA
    /\ ThreeInWindow(PolicyA)
    /\ actions[1].action # actions[2].action
    /\ actions[3].created_at > actions[1].created_at
    /\ Stored(actions[3]) = <<TRUE, 3>>

\* C20: an evaluate without target (none, or the empty string) reports
\* is_compound = false and compound_count = 1, its breadth is the one the
\* breadth scorer gives, with no compound boost, and the engine's own
\* detection found it not compound; the same holds of every stored Action
\* without target.
C20_NoTargetNotCompound ==
    /\ \A r \in Reqs :
          (HasReported(r) /\ ~TargetTruthy(req[r].target)) =>
             /\ Reported(req[r]) = <<FALSE, 1>>
             /\ req[r].engine_det = [is_compound |-> FALSE, compound_count |-> 1]
             /\ req[r].breadth = _calculate_breadth(req[r].target, req[r].metadata)
    /\ \A id \in 1..Len(actions) :
          ~TargetTruthy(actions[id].target) =>
             /\ Stored(actions[id]) = <<FALSE, 1>>
             /\ actions[id].breadth =
                   _calculate_breadth(actions[id].target, actions[id].metadata)

\* An evaluate with the empty string as target reports, after two Actions
\* with that same empty target were stored in its session at this very time.
C20_Witness ==
    \E r \in Reqs :
        /\ HasReported(r)
        /\ req[r].target = Target(<<>>)
        /\ Len(actions) >= 2
        /\ \A id \in 1..2 : /\ actions[id].target = Target(<<>>)
                            /\ actions[id].session_id = req[r].session_id
                            /\ actions[id].created_at = now
        /\ Reported(req[r]) = <<FALSE, 1>>

-----------------------------------------------------------------------------
\* Near-miss learning: near-miss reports and evaluations, one request after
\* the other, under either policy, while time passes.

\* Metadata with every probability booster: the scorer's probability is 1.0.
MetaCertain ==
    Meta([user_confirmed |-> BoolV(FALSE), automated |-> BoolV(TRUE),
          time_sensitive |-> BoolV(TRUE), off_hours |-> BoolV(TRUE)])

\* The evaluate requests: an action name in two sessions, with and without a
\* target, the same name in another letter case, and a request whose
\* probability is 1.0 before any near-miss.
LearnInputs ==
    { EvalInput("s1", <<"m">>, NoTarget, NoMeta),
      EvalInput("s2", <<"m">>, Target(<<"u">>), NoMeta),
      EvalInput("s1", <<"M">>, NoTarget, NoMeta),
      EvalInput("s1", <<"m">>, NoTarget, MetaCertain) }

\* The near-miss requests: session, action name and actual_severity (below
\* the min_severity of both policies, at that of policy B, above both).
LearnNearMisses ==
    { [session_id |-> "s1", action |-> <<"m">>, severity |-> 5],
      [session_id |-> "s1", action |-> <<"m">>, severity |-> 50],
      [session_id |-> "s1", action |-> <<"m">>, severity |-> 80],
      [session_id |-> "s2", action |-> <<"M">>, severity |-> 80] }

InitLearn == \E p \in Policies :
    InitWith(p, [w \in WebhookIds |-> NoWebhook], <<>>)

NextLearn ==
    \/ \E i \in LearnInputs :
          /\ EvalsStarted < MaxLearnEvals
          /\ EvSession(1, i.session_id, i.action, i.target, i.metadata)
    \/ EvCreate(1)
    \/ EvRefresh(1)
    \/ EvNearMiss(1)
    \/ EvCompound(1)
    \/ EvCompound2(1)
    \/ EvInsert(1)
    \/ \E n \in LearnNearMisses :
          /\ Len(near_misses) < MaxLearnMisses
          /\ NmInsert(1, n.session_id, n.action, n.severity)
    \/ HooksSelect(1)
    \/ Return(1)
    \/ Tick(MaxLearnTime)

SpecLearn == InitLearn /\ [][NextLearn]_vars

\* The evaluate of handler r takes the step in which the SELECT of its
\* near-misses returns and the multiplier is applied (l.68-70).
AppliesMultiplier(r) ==
    req[r].pc = "ev_near_miss" /\ req'[r].pc # "ev_near_miss"

\* The near-misses recorded for the action name.
RecordedFor(action) ==
    {k \in 1..Len(near_misses) : near_misses[k].action = action}

\* C21: the near-miss multiplier an evaluate applies is at most the
\* max_multiplier of its policy, whatever near-misses are recorded, and when
\* none is recorded for its action name the multiplier is exactly 1 and the
\* probability stays what the scorer gave.
C21_MultiplierBounded ==
    /\ [](\A r \in Reqs :
             req[r].kind = "evaluate" =>
                req[r].mult <= req[r].policy.max_multiplier)
    /\ [][\A r \in Reqs :
             AppliesMultiplier(r) =>
                /\ req'[r].mult <= req[r].policy.max_multiplier
                /\ RecordedFor(req[r].action) = {} =>
                      /\ req'[r].mult = MultScale
                      /\ req'[r].probability = req[r].probability
         ]_vars

\* Under policy A an evaluate is about to store its Action after three
\* near-misses of severity 0.8 for its action name, which together ask for
\* more than max_multiplier; its multiplier is max_multiplier.
C21_Witness ==
    \E r \in Reqs :
        /\ req[r].kind = "evaluate"
        /\ req[r].pc = "ev_insert"
        /\ req[r].policy = PolicyA
        /\ Cardinality(RecordedFor(req[r].action)) = 3
        /\ \A k \in RecordedFor(req[r].action) : near_misses[k].actual_severity = 80
        /\ req[r].mult = PolicyA.max_multiplier

\* The table without its row k.
Without(rows, k) == SubSeq(rows, 1, k - 1) \o SubSeq(rows, k + 1, Len(rows))

\* The near-misses recorded with a severity below the min_severity of policy p.
BelowMin(p) ==
    {k \in 1..Len(near_misses) : near_misses[k].actual_severity < p.min_severity}

\* C22: a recorded near-miss whose actual_severity is below min_severity
\* changes no multiplier: the multiplier every later evaluate applies, and
\* the probability it gets, are what they would be without that record.
C22_BelowMinSeverityIgnored ==
    [][\A r \in Reqs :
          AppliesMultiplier(r) =>
             \A k \in BelowMin(req[r].policy) :
                LET m == _get_near_miss_multiplier(req[r].policy,
                            Without(near_misses, k), req[r].action, now)
                IN  /\ req'[r].mult = m
                    /\ req'[r].probability =
                          NearMissProbability(req[r].probability, m)
      ]_vars

\* Under policy A an evaluate is about to store its Action; for its action
\* name a near-miss of severity 0.05 and one of 0.8 were recorded, both just
\* now, and the multiplier is the 1.4 of the second alone.
C22_Witness ==
    \E r \in Reqs :
        /\ req[r].kind = "evaluate"
        /\ req[r].pc = "ev_insert"
        /\ req[r].policy = PolicyA
        /\ {near_misses[k].actual_severity : k \in RecordedFor(req[r].action)} = {5, 80}
        /\ Cardinality(RecordedFor(req[r].action)) = 2
        /\ \A k \in RecordedFor(req[r].action) : near_misses[k].created_at = now
        /\ req[r].mult = 1400

\* The near-misses recorded for the action name that count under policy p.
CountedFor(p, action) ==
    {k \in RecordedFor(action) : near_misses[k].actual_severity >= p.min_severity}

\* What the evaluate of handler r, about to apply its multiplier, would get
\* from the table without record k: the multiplier and the probability.
MultBefore(r, k) ==
    _get_near_miss_multiplier(req[r].policy, Without(near_misses, k),
                              req[r].action, now)
ProbBefore(r, k) == NearMissProbability(req[r].probability, MultBefore(r, k))

\* 1 + severity * 0.5, capped, in thousandths.
SingleNearMiss(p, severity) == Min(p.max_multiplier, MultScale + 5 * severity)

\* C23 as stated: once a near-miss with actual_severity >= min_severity is
\* recorded for an action name, every evaluate of the name applies a
\* multiplier above 1.0 (1 + severity * 0.5, capped, when the record is the
\* only one and was made just now), and an evaluate made right after the
\* record gets a strictly higher probability than the same evaluate would
\* have got before it.
C23_NearMissRaisesProbability ==
    [][\A r \in Reqs :
          AppliesMultiplier(r) =>
             \A k \in CountedFor(req[r].policy, req[r].action) :
                /\ req'[r].mult > MultScale
                /\ near_misses[k].created_at = now =>
                      /\ req'[r].probability > ProbBefore(r, k)
                      /\ RecordedFor(req[r].action) = {k} =>
                            req'[r].mult = SingleNearMiss(req[r].policy,
                                               near_misses[k].actual_severity)
      ]_vars

\* C23, amended: the multiplier is above 1.0 as stated; the probability of
\* an evaluate made right after the record is never lower than before it,
\* and strictly higher whenever the probability before was below 1.0 and the
\* multiplier before was below max_multiplier.
C23_NearMissRaisesUnsaturated ==
    [][\A r \in Reqs :
          AppliesMultiplier(r) =>
             \A k \in CountedFor(req[r].policy, req[r].action) :
                /\ req'[r].mult > MultScale
                /\ near_misses[k].created_at = now =>
                      /\ req'[r].probability >= ProbBefore(r, k)
                      /\ (/\ ProbBefore(r, k) < Scale
                          /\ MultBefore(r, k) < req[r].policy.max_multiplier) =>
                            req'[r].probability > ProbBefore(r, k)
                      /\ RecordedFor(req[r].action) = {k} =>
                            req'[r].mult = SingleNearMiss(req[r].policy,
                                               near_misses[k].actual_severity)
      ]_vars

\* Under policy A an Action was stored with probability 0.3, a near-miss of
\* severity 0.8 was recorded for its name, and an evaluate with the same
\* name and metadata, all at one time, is about to store its Action with
\* multiplier 1.4 and probability 0.42.
C23_Witness ==
    \E r \in Reqs :
        /\ req[r].kind = "evaluate"
        /\ req[r].pc = "ev_insert"
        /\ req[r].policy = PolicyA
        /\ \E k \in 1..Len(near_misses) :
              /\ RecordedFor(req[r].action) = {k}
              /\ near_misses[k].actual_severity = 80
              /\ near_misses[k].created_at = now
        /\ \E id \in 1..Len(actions) :
              /\ actions[id].action = req[r].action
              /\ actions[id].metadata = req[r].metadata
              /\ actions[id].created_at = now
              /\ actions[id].probability = 30
        /\ req[r].mult = 1400
        /\ req[r].probability = 42

\* C24: the multiplier of an evaluate depends on the near-misses of exactly
\* its action name only.  A record under any other name, one that differs
\* only in letter case included, changes nothing: the multiplier is what it
\* would be without the record.  A record of the same name that counts
\* raises the multiplier (as long as the cap allows) whatever session it was
\* recorded in and whatever the session and the target of the evaluate.
C24_MatchedByExactName ==
    [][\A r \in Reqs :
          AppliesMultiplier(r) =>
             /\ \A k \in (1..Len(near_misses)) \ RecordedFor(req[r].action) :
                   req'[r].mult = MultBefore(r, k)
             /\ \A k \in CountedFor(req[r].policy, req[r].action) :
                   MultBefore(r, k) < req[r].policy.max_multiplier =>
                      req'[r].mult > MultBefore(r, k)
      ]_vars

\* An evaluate of m on a target in session s2 is about to store its Action;
\* the near-misses recorded are one for m in session s1 and one for M in
\* session s2, both of severity 0.8 and just now, and the multiplier is the
\* 1.4 of the first alone.
C24_Witness ==
    \E r \in Reqs :
        /\ req[r].kind = "evaluate"
        /\ req[r].pc = "ev_insert"
        /\ req[r].policy = PolicyA
        /\ req[r].session_id = "s2"
        /\ req[r].action = <<"m">>
        /\ TargetTruthy(req[r].target)
        /\ Len(near_misses) = 2
        /\ \E k, j \in 1..2 :
              /\ near_misses[k] = [session_id |-> "s1", action |-> <<"m">>,
                                   actual_severity |-> 80, created_at |-> now]
              /\ near_misses[j] = [session_id |-> "s2", action |-> <<"M">>,
                                   actual_severity |-> 80, created_at |-> now]
        /\ req[r].mult = 1400

-----------------------------------------------------------------------------
\* The scorer: up to MaxScored evaluations, one after the other, of requests
\* that exercise the three factors, in either session, with approvals in
\* between, under a policy that stays; no near-miss is recorded.

ScorerPolicies == {PolicyA, PolicyB, PolicyC}

\* "all-staff"
AllStaff == Target(<<"a", "l", "l", "-", "s">>)

\* The payment of the seed scenario.
MetaPayment == Meta([financial |-> BoolV(TRUE), amount |-> NumV(15000),
                     automated |-> BoolV(TRUE)])

\* The request bodies: (action, target, metadata).
ScorerBodies ==
    { <<(<<"m">>), Target(<<"u">>), NoMeta>>,
      <<(<<"m">>), Target(<<"u">>), MetaPayment>>,
      <<(<<"m">>), AllStaff, NoMeta>>,
      <<(<<"m">>), AllStaff, Meta([recipients |-> NumV(20)])>>,
      <<(<<"m">>), Target(<<"u">>), Meta([recipients |-> ListV(3)])>>,
      <<(<<"t">>), NoTarget, Meta([force |-> BoolV(TRUE)])>>,
      <<(<<"d">>), NoTarget, Meta([irreversible |-> BoolV(TRUE)])>>,
      <<(<<"m">>), NoTarget, Meta([amount |-> StrV("lots")])>>,
      <<(<<"m">>), NoTarget, Meta([recipients |-> StrV("many")])>> }

ScorerInputs ==
    { EvalInput(s, b[1], b[2], b[3]) : s \in SessionIds, b \in ScorerBodies }

InitScorer == \E p \in ScorerPolicies :
    InitWith(p, [w \in WebhookIds |-> NoWebhook], <<>>)

NextScorer ==
    \/ \E i \in ScorerInputs :
          /\ EvalsStarted < MaxScored
          /\ EvSession(1, i.session_id, i.action, i.target, i.metadata)
    \/ EvCreate(1)
    \/ EvRefresh(1)
    \/ EvNearMiss(1)
    \/ EvCompound(1)
    \/ EvCompound2(1)
    \/ EvInsert(1)
    \/ \E id \in 1..MaxScored, ok \in BOOLEAN : ApLoad(1, id, ok, "rest", "")
    \/ ApSession(1)
    \/ ApCommit(1)
    \/ HooksSelect(1)
    \/ Return(1)

SpecScorer == InitScorer /\ [][NextScorer]_vars

\* C25: every stored Action has its impact, breadth and probability in
\* [0,1] (0..Scale in hundredths) and its risk_score in [0,1] (in
\* millionths), whatever the request and whatever impact_floor and
\* metadata_boosts the loaded policy holds.
C25_ComponentsInUnitRange ==
    \A id \in 1..Len(actions) :
        /\ actions[id].impact \in 0..Scale
        /\ actions[id].breadth \in 0..Scale
        /\ actions[id].probability \in 0..Scale
        /\ actions[id].risk_score \in 0..(Scale * Scale * Scale)

\* The scoring columns of an Action row, or fields of an evaluate.
Scores(x) == <<x.impact, x.breadth, x.probability, x.risk_score>>

\* Handler r is an evaluate whose Action is stored.
HasStored(r) ==
    /\ HasReported(r)
    /\ req[r].pc # "ev_insert"

\* C26: the risk_score of every stored Action is the product of its stored
\* impact, breadth and probability; an evaluate returns the four values it
\* stored, its breadth being the scorer's breadth after the compound boost
\* and its probability the scorer's probability after the near-miss
\* multiplier; and the four values of a stored row never change.
C26_RiskIsProduct ==
    /\ [](\A id \in 1..Len(actions) :
             actions[id].risk_score =
                actions[id].impact * actions[id].breadth * actions[id].probability)
    /\ [](\A r \in Reqs :
             HasReported(r) =>
                /\ req[r].risk_score =
                      req[r].impact * req[r].breadth * req[r].probability
                /\ req[r].breadth =
                      CompoundBreadth(req[r].policy,
                          _calculate_breadth(req[r].target, req[r].metadata),
                          req[r].engine_det)
                /\ req[r].probability =
                      NearMissProbability(_calculate_probability(req[r].metadata),
                                          req[r].mult))
    /\ [](\A r \in Reqs :
             HasStored(r) => Scores(actions[req[r].new_id]) = Scores(req[r]))
    /\ [][\A id \in 1..Len(actions) :
             Scores(actions'[id]) = Scores(actions[id])]_vars

\* A stored Action that was compound and whose name had a near-miss of
\* severity 0.8: breadth 0.3 * 1.4, probability 0.3 * 1.4, risk_score their
\* product with impact 0.3; it has been approved since.
C26_Witness ==
    \E id \in 1..Len(actions) :
        /\ actions[id].is_compound
        /\ Scores(actions[id]) = <<30, 42, 42, 52920>>
        /\ IsApproved(actions[id])

\* Handler r is an evaluate that holds the three factors as the scorer
\* returned them, before the multiplier and the compound boost.
HasScored(r) == req[r].kind = "evaluate" /\ req[r].pc = "ev_near_miss"

\* The target, lowercased, contains the keyword "all".
BroadTarget(target) ==
    TargetTruthy(target) /\ IsSubstring(<<"a", "l", "l">>, Lower(target.s))

\* C27: for a target that contains "all" the scorer's breadth is 0.9
\* whatever the metadata holds, and a recipients count never lowers the
\* breadth: the breadth is at least what the same request without
\* recipients gets.
C27_BroadTargetBreadth ==
    \A r \in Reqs :
        HasScored(r) =>
           /\ BroadTarget(req[r].target) => req[r].breadth = 90
           /\ req[r].breadth >=
                 _calculate_breadth(req[r].target,
                     [req[r].metadata EXCEPT !["recipients"] = Absent])

\* Handler r is an evaluate of the seed payment: policy A (the default
\* thresholds), no rule matching the action name, the metadata {financial:
\* true, amount: 15000, automated: true}, no near-miss for the name, a
\* target that is not compound; the engine has returned.
SeedPayment(r) ==
    /\ HasReported(r)
    /\ req[r].policy = PolicyA
    /\ get_action_rule(PolicyA, req[r].action) = 0
    /\ req[r].metadata = MetaPayment
    /\ TargetTruthy(req[r].target)
    /\ ~req[r].engine_det.is_compound
    /\ RecordedFor(req[r].action) = {}

\* C28 as stated: the seed payment yields impact 0.9, breadth 0.3,
\* probability 0.5 and risk_score 0.135.
C28_SeedPaymentScores ==
    \A r \in Reqs : SeedPayment(r) => Scores(req[r]) = <<90, 30, 50, 135000>>

\* C28, amended: the seed payment yields impact 1.0 (0.3 + 0.3 + 0.2 + 0.3,
\* clamped), breadth 0.3, probability 0.5 and risk_score 0.15, in the
\* response and in the stored Action.
C28_SeedPaymentScoresBothBoosts ==
    \A r \in Reqs :
        SeedPayment(r) =>
           /\ Scores(req[r]) = <<100, 30, 50, 150000>>
           /\ HasStored(r) => Scores(actions[req[r].new_id]) = <<100, 30, 50, 150000>>

\* The seed payment was answered with 200 and its Action is stored.
C28_Witness ==
    \E r \in Reqs :
        /\ SeedPayment(r)
        /\ req[r].pc = "done"
        /\ req[r].status = 200
        /\ Scores(actions[req[r].new_id]) = <<100, 30, 50, 150000>>

\* C29: the scorer never raises, so no evaluate fails because of what its
\* metadata holds: every evaluate that ends, ends with status 200 and the
\* three factors the scorer returned.
C29_ScorerCannotFail ==
    \A r \in Reqs :
        (req[r].kind = "evaluate" /\ req[r].pc = "done") =>
           /\ req[r].status = 200
           /\ req[r].impact =
                 _calculate_impact(req[r].policy, req[r].action, req[r].metadata)

\* The three components of an Action row or of an evaluate.
Components(x) == <<x.impact, x.breadth, x.probability>>

\* The request body an Action row or an evaluate came from.
Body(x) == <<x.action, x.target, x.metadata>>

\* Row id is the first Action of its session: its evaluate ran against a
\* session without history.
FirstOfSession(id) ==
    \A k \in 1..(id - 1) : actions[k].session_id # actions[id].session_id

\* C30: with no near-miss recorded and the policy unchanged, two evaluations
\* of the same (action, target, metadata), each the first of its session,
\* get the same impact, breadth and probability, whatever the session ids
\* and whatever the other sessions hold by then; so does an evaluate that is
\* about to store the first Action of its session.
C30_ScoringDeterministic ==
    /\ \A i, j \in 1..Len(actions) :
          (/\ FirstOfSession(i) /\ FirstOfSession(j)
           /\ Body(actions[i]) = Body(actions[j])) =>
             Components(actions[i]) = Components(actions[j])
    /\ \A r \in Reqs, i \in 1..Len(actions) :
          (/\ HasReported(r) /\ req[r].pc = "ev_insert"
           /\ \A k \in 1..Len(actions) : actions[k].session_id # req[r].session_id
           /\ FirstOfSession(i)
           /\ Body(actions[i]) = Body(req[r])) =>
             Components(req[r]) = Components(actions[i])

\* An evaluate of the payment on a target is about to store the first Action
\* of session s2 with the components of Action 1, the same request in
\* session s1, which was approved and charged to s1 before.
C30_Witness ==
    \E r \in Reqs :
        /\ HasReported(r) /\ req[r].pc = "ev_insert"
        /\ req[r].session_id = "s2"
        /\ Len(actions) = 1
        /\ actions[1].session_id = "s1"
        /\ IsApproved(actions[1])
        /\ sessions["s1"].cumulative_risk > 0
        /\ Body(req[r]) = <<(<<"m">>), Target(<<"u">>), MetaPayment>>
        /\ Body(actions[1]) = Body(req[r])
        /\ Components(req[r]) = Components(actions[1])

-----------------------------------------------------------------------------
\* The signature of webhook posts (SpecEvents: webhook 1 has a secret,
\* webhook 2 has none, attempts fail and are repeated while time passes).

\* The values of the header of this name.
HeaderValues(headers, name) ==
    {headers[i][2] : i \in {j \in 1..Len(headers) : headers[j][1] = name}}

\* The item of dict d under key k.
ItemOf(d, k) == CHOOSE e \in Range(d) : e.k = k

\* The HTTP attempts handler r has made, to any webhook.
AllHookPosts(r) == SelectSeq(req[r].sent, LAMBDA m : m.sink = "hook")

\* C31: every webhook POST sends a payload with the keys event, data,
\* timestamp and webhook_id (the event that is delivered, its data, the id of
\* the webhook posted to); it carries the header X-Webhook-Signature exactly
\* when the webhook has a secret, and the value then is 'sha256=' followed by
\* the HMAC-SHA256, under that secret, of the key-sorted JSON of the payload
\* that this POST sends; and all attempts of one delivery send the same
\* payload and the same headers.
C31_SignatureOverSentPayload ==
    \A r \in Reqs :
        \A i \in 1..Len(AllHookPosts(r)) :
            LET p      == AllHookPosts(r)[i]
                secret == webhooks[p.dest].secret
                sigs   == HeaderValues(p.headers, "X-Webhook-Signature")
            IN  /\ {e.k : e \in Range(p.json)} =
                       {"event", "data", "timestamp", "webhook_id"}
                /\ Len(p.json) = 4
                /\ ItemOf(p.json, "event").v = Quote(p.event)
                /\ ItemOf(p.json, "data").o = EventData(req[r], p.event)
                /\ ItemOf(p.json, "webhook_id").v = ToString(p.dest)
                /\ (sigs # {}) <=> (secret # "")
                /\ secret # "" =>
                      sigs = {"sha256=" \o HmacSha256(secret, json_dumps(p.json, TRUE))}
                /\ \A j \in 1..Len(AllHookPosts(r)) :
                      AllHookPosts(r)[j].dest = p.dest =>
                         /\ AllHookPosts(r)[j].json = p.json
                         /\ AllHookPosts(r)[j].headers = p.headers

\* A checkpoint is being delivered: the first attempt to webhook 1 (which has
\* a secret) failed and a later attempt was made after time had passed, both
\* signed; webhook 2 (no secret) was posted to without the header; and the
\* signed text is not the text of the payload in the order of its keys.
C31_Witness ==
    \E r \in Reqs :
        LET posts == AllHookPosts(r)
        IN  /\ \E i, j \in 1..Len(posts) :
                  /\ posts[i].dest = 1 /\ posts[j].dest = 1
                  /\ ~posts[i].ok
                  /\ posts[j].time > posts[i].time
                  /\ posts[j].attempt > posts[i].attempt
                  /\ HeaderValues(posts[j].headers, "X-Webhook-Signature") # {}
                  /\ json_dumps(posts[j].json, TRUE) # json_dumps(posts[j].json, FALSE)
            /\ \E k \in 1..Len(posts) :
                  /\ posts[k].dest = 2
                  /\ HeaderValues(posts[k].headers, "X-Webhook-Signature") = {}

-----------------------------------------------------------------------------
\* The order of messages to the live subscribers: three dashboards are
\* connected and may disconnect; evaluations that checkpoint (two broadcasts
\* each) and near-miss reports of up to MaxReq handlers in flight broadcast
\* while time passes, so that the timestamps of the messages tell which
\* broadcast started first.  Every send succeeds.

InitFifo ==
    InitWith(PolicyA, [w \in WebhookIds |-> NoWebhook], <<"c1", "c2", "c3">>)

NextFifo ==
    \/ \E r \in Reqs, i \in LiveInputs :
          /\ LiveStarted < MaxFifoEvents
          /\ EvSession(r, i.session_id, i.action, i.target, i.metadata)
    \/ \E r \in Reqs : EvCreate(r)
    \/ \E r \in Reqs : EvRefresh(r)
    \/ \E r \in Reqs : EvNearMiss(r)
    \/ \E r \in Reqs : EvInsert(r)
    \/ \E r \in Reqs :
          /\ LiveStarted < MaxFifoEvents
          /\ NmInsert(r, "s1", <<"m">>, 80)
    \/ \E r \in Reqs : HooksSelect(r)
    \/ \E r \in Reqs : WsSend(r, TRUE)
    \/ \E r \in Reqs : Return(r)
    \/ \E c \in ConnIds : WsDisconnect(c)
    \/ (\E r \in Reqs : req[r].pc = "ws_send") /\ Tick(MaxFifoTime)

SpecFifo == InitFifo /\ [][NextFifo]_vars

\* Handler q calls send_json on connection c in this step: it starts a
\* broadcast whose first connection is c, or the send it was suspended in
\* returns and c is the next element of the list.
CallsSend(q, c) ==
    /\ req'[q].pc = "ws_send"
    /\ req'[q].bc_cur = c
    /\ \/ req[q].pc # "ws_send"
       \/ req'[q].bcast # req[q].bcast
       \/ req'[q].bc_idx # req[q].bc_idx

\* Handler r has sent to connection c, and the send has returned, a message
\* with a timestamp later than t.
HasSentLater(r, c, t) ==
    \E i \in 1..Len(req[r].sent) :
        /\ req[r].sent[i].sink = "ws"
        /\ req[r].sent[i].dest = c
        /\ req[r].sent[i].ok
        /\ req[r].sent[i].timestamp > t

\* The live messages a handler has sent to connection c, in order.
LiveEvents(rq, c) ==
    LET to_c == SelectSeq(rq.sent, LAMBDA m : m.sink = "ws" /\ m.dest = c)
    IN  [i \in 1..Len(to_c) |-> to_c[i].event]

\* C32: a subscriber is sent the events in the order in which their
\* broadcasts started: when a handler calls send on a connection, no other
\* handler in flight has already sent that connection a message of a
\* broadcast that started later (a message with a later timestamp); and an
\* evaluate that checkpoints sends a connection checkpoint_triggered before
\* action_evaluated.
C32_FifoPerSubscriber ==
    /\ [][\A q \in Reqs, c \in ConnIds :
             CallsSend(q, c) =>
                \A r \in Reqs \ {q} : ~HasSentLater(r, c, req'[q].bc_time)
         ]_vars
    /\ [](\A r \in Reqs, c \in ConnIds :
             req[r].kind = "evaluate" =>
                LiveEvents(req[r], c) \in
                    { <<>>, <<"checkpoint_triggered">>, <<"action_evaluated">>,
                      <<"checkpoint_triggered", "action_evaluated">> })

-----------------------------------------------------------------------------
\* C33: in every state, the cumulative_risk of every session is the summed
\* risk_score of that session's Actions that stand approved, whatever
\* evaluate and approve calls were made (approve(true), approve(false),
\* approvals repeated, an approval followed by a rejection of the same
\* Action).
C33_CumulativeIsApprovedSum ==
    \A s \in SessionIds :
        sessions[s].cumulative_risk = RiskOf(s, Len(actions), ApprovedIds)

-----------------------------------------------------------------------------
\* C34: the is_compound and compound_count an evaluate reports and stores
\* are the ones its breadth was computed with: they are the verdict of the
\* engine's detection, and the breadth reported and stored is the scorer's
\* breadth boosted by (1 + same_resource_boost * compound_count) exactly when
\* is_compound is reported, whatever other evaluations stored meanwhile.
C34_ReportedCompoundIsUsed ==
    /\ \A r \in Reqs :
          HasReported(r) =>
             LET rq == req[r]
                 reported == [is_compound    |-> rq.is_compound,
                              compound_count |-> rq.compound_count]
             IN  /\ reported = rq.engine_det
                 /\ rq.breadth =
                       CompoundBreadth(rq.policy,
                           _calculate_breadth(rq.target, rq.metadata), reported)
    /\ \A id \in 1..Len(actions) :
          actions[id].breadth =
             CompoundBreadth(risk_engine,
                 _calculate_breadth(actions[id].target, actions[id].metadata),
                 [is_compound    |-> actions[id].is_compound,
                  compound_count |-> actions[id].compound_count])

-----------------------------------------------------------------------------
\* C35: in every state a webhook is disabled exactly when its failure_count
\* is 10 or more, also when a delivery that began before the webhook was
\* disabled succeeds afterwards; and no step enables a disabled webhook.
C35_DisabledIffTenFailures ==
    /\ [](\A w \in WebhookIds :
             webhooks[w].exists =>
                (~webhooks[w].enabled <=> webhooks[w].failure_count >= DisableAfter))
    /\ [][\A w \in WebhookIds :
             (webhooks[w].exists /\ ~webhooks[w].enabled /\ webhooks'[w].exists)
                => ~webhooks'[w].enabled
         ]_vars

-----------------------------------------------------------------------------
\* C36: every evaluate ends successfully with its Action stored, also when
\* two evaluations of a session id that has no Session yet run concurrently;
\* and every stored Action belongs to a session that has its Session record
\* (the table holds one row per session id: session_id is unique).
C36_ConcurrentFirstEvaluates ==
    /\ \A r \in Reqs :
          (req[r].kind = "evaluate" /\ req[r].pc = "done") =>
             /\ req[r].status = 200
             /\ req[r].new_id \in 1..Len(actions)
             /\ actions[req[r].new_id].session_id = req[r].session_id
    /\ \A id \in 1..Len(actions) : sessions[actions[id].session_id].exists

-----------------------------------------------------------------------------
\* Termination of the handlers (SpecAlive): the requests of SpecEvents, one
\* after the other, where time passes only while a delivery sleeps, so that
\* the clock is bounded by the number of requests and never holds a delivery
\* back.

\* Webhook 1 takes the events of every kind of request, webhook 2 the
\* rejections as well.
AliveHooks ==
    [w \in WebhookIds |->
        IF w = 1
        THEN NewWebhook({"checkpoint_triggered", "action_approved",
                         "action_rejected", "near_miss_recorded"}, "k")
        ELSE NewWebhook({"action_rejected"}, "")]

InitAlive == InitWith(PolicyA, AliveHooks, <<"c1", "c2">>)

\* asyncio.sleep(2 ** attempt) of a delivery of handler r is running: the
\* clock advances.
Elapse(r) ==
    /\ req[r].pc = "deliver"
    /\ \E w \in WebhookIds :
          /\ req[r].deliv[w].st = "post"
          /\ Tick(req[r].deliv[w].wake)

\* One step of the task of handler r: the code between two awaits.
Step(r) ==
    \/ EvCreate(r)
    \/ EvRefresh(r)
    \/ EvNearMiss(r)
    \/ EvInsert(r)
    \/ ApSession(r)
    \/ ApCommit(r)
    \/ HooksSelect(r)
    \/ \E w \in WebhookIds, ok \in BOOLEAN : DeliverPost(r, w, ok)
    \/ \E w \in WebhookIds : DeliverCommit(r, w)
    \/ \E ok \in BOOLEAN : WsSend(r, ok)

NextAlive ==
    \/ \E i \in EventInputs :
          /\ EventsStarted < MaxAliveEvents
          /\ EvSession(1, i.session_id, i.action, i.target, i.metadata)
    \/ \E id \in 1..MaxActions, ok \in BOOLEAN :
          EventsStarted < MaxAliveEvents /\ ApLoad(1, id, ok, "rest", "")
    \/ /\ EventsStarted < MaxAliveEvents
       /\ NmInsert(1, "s1", <<"m">>, 80)
    \/ Step(1)
    \/ Elapse(1)
    \/ Return(1)

\* The event loop runs a task that is ready, every awaited query, commit,
\* POST (timeout 10 s) and send ends by returning or raising, and a sleep
\* ends when its time has passed: while the handler can go on, it does.
FairAlive == WF_vars(Step(1) \/ Elapse(1))

SpecAlive == InitAlive /\ [][NextAlive]_vars /\ FairAlive

\* C37: a request that has been received ends with its response, whatever
\* the webhooks and the dashboards do, and no delivery makes more than
\* max_retries attempts.
C37_HandlersReturn ==
    /\ (req[1].pc # "idle") ~> (req[1].pc = "done")
    /\ [](\A w \in WebhookIds : Len(HookPosts(1, w)) <= max_retries)

\* A rejection has ended with its response although each of its attempts at
\* both webhooks and each of its sends failed.
C37_Witness ==
    /\ Completed(1)
    /\ req[1].kind = "approve"
    /\ \A w \in WebhookIds : Len(HookPosts(1, w)) = max_retries
    /\ \A i \in 1..Len(req[1].sent) : ~req[1].sent[i].ok
    /\ \E i \in 1..Len(req[1].sent) : req[1].sent[i].sink = "ws"

-----------------------------------------------------------------------------
\* C38: the reason of an evaluate.  When neither the always_checkpoint rule
\* nor the threshold nor the budget rule fires, the evaluate reports
\* needs_checkpoint = false and its reason is empty if it reports the action
\* as not compound, and is the tag "Compound action (Nx). " alone if it
\* reports it as compound; when a rule fires and the action is reported as
\* compound, the reason is that tag followed by the reason of the rule; N is
\* the compound_count the evaluate reports.
C38_ReasonText ==
    \A r \in Reqs :
        HasReported(r) =>
            LET rq     == req[r]
                always == AlwaysRule(rq.policy, rq.action)
                over   == rq.risk_score > rq.policy.checkpoint_trigger
                spent  == rq.sess.cumulative_risk + rq.risk_score > rq.sess.risk_budget
                fired  == always \/ over \/ spent
                rule   == IF always
                          THEN ActionRuleReason(
                                   rq.policy.action_rules[FirstMatch(rq.policy, rq.action)])
                          ELSE IF over THEN ThresholdPart(r) ELSE BudgetPart(r)
                tag    == CompoundTag(rq.compound_count)
                text   == Joined(rq.reason)
            IN  /\ ~fired =>
                      /\ ~rq.needs_checkpoint
                      /\ text = IF rq.is_compound THEN tag ELSE ""
                /\ (fired /\ rq.is_compound) => text = tag \o rule

-----------------------------------------------------------------------------
\* The LangChain integration (integrations/langchain.py) in front of the
\* gateway: tool calls are made one after the other through
\* OversightCallback.on_tool_start or through a tool wrapped by
\* wrap_tool_with_oversight; the SDK client posts to the gateway, whose
\* handler runs in slot 1 under policy A (the tool "d b" matches its
\* always_checkpoint rule, the tool "m" no rule).

ChainTools == { <<"m">>, <<"d", "b">> }

InitChain == InitWith(PolicyA, [w \in WebhookIds |-> NoWebhook], <<>>)

\* The call passed the checks: on_tool_start returns (l.96-98, l.110-115),
\* oversight_run goes on to `await original_run(...)` (l.238-239).
Proceed(c) ==
    IF c.via = "callback"
    THEN [c EXCEPT !.pc = "ended", !.outcome = "returned"]
    ELSE [c EXCEPT !.pc = "original_run"]

\* The call ends with an exception.
Raise(c, exc) == [c EXCEPT !.pc = "ended", !.outcome = exc]

\* The branch on result.needs_checkpoint (l.80-115, l.229-236).
AfterEvaluate(c) ==
    IF c.needs_checkpoint
    THEN IF c.on_checkpoint
         THEN [c EXCEPT !.pc = "on_checkpoint"]
         ELSE Raise(c, "PermissionError")
    ELSE Proceed(c)

\* A wrapper that goes on whatever the handler answered.
AfterApproveUnchecked(c) == Proceed(c)

\* `if not approved: raise PermissionError` (l.98-102, l.233-234).
AfterApprove(c) ==
    IF ~c.approved THEN Raise(c, "PermissionError") ELSE Proceed(c)

\* A tool call begins: tool name and input are taken and client.evaluate is
\* awaited (l.64-77, l.221-226).
StartCall(via, handler, tool, input) ==
    /\ tool_call.pc \in {"idle", "ended"}
    /\ req[1].pc = "idle"
    /\ Len(actions) < MaxToolCalls
    /\ tool_call' = [NoCall EXCEPT !.pc = "evaluate", !.via = via,
                                   !.on_checkpoint = handler, !.tool = tool,
                                   !.input = input]
    /\ UNCHANGED <<now, config_policy, risk_engine, sessions, actions,
                   near_misses, webhooks, active_connections, req, n_approve>>

\* OversightCallback.on_tool_start is called by the agent.
on_tool_start(handler, tool, input) == StartCall("callback", handler, tool, input)

\* The wrapped tool's run method is called.
oversight_run(handler, tool, input) == StartCall("wrapper", handler, tool, input)

\* AsyncOversightClient.evaluate: the POST /evaluate reaches the gateway
\* (SDK l.74-82); the metadata sent has none of the keys the scorer reads.
client_evaluate ==
    /\ tool_call.pc = "evaluate"
    /\ EvSession(1, "s1", tool_call.tool, Target(tool_call.input), NoMeta)

\* client.evaluate returns the EvaluationResult, or raise_for_status raises
\* (SDK l.83-98); the code up to the next await follows.
EvaluateReturns ==
    /\ tool_call.pc = "evaluate"
    /\ req[1].pc = "done" /\ req[1].kind = "evaluate"
    /\ tool_call' =
          IF req[1].status = 200
          THEN AfterEvaluate([tool_call EXCEPT
                                 !.evaluated = TRUE,
                                 !.needs_checkpoint = req[1].needs_checkpoint,
                                 !.action_id = req[1].new_id])
          ELSE Raise(tool_call, "HTTPStatusError")
    /\ UNCHANGED <<now, config_policy, risk_engine, sessions, actions,
                   near_misses, webhooks, active_connections, req, n_approve>>

\* `approved = await self.on_checkpoint(result)` returns (l.89, l.231).
HandlerReturns(approved) ==
    /\ tool_call.pc = "on_checkpoint"
    /\ tool_call' = [tool_call EXCEPT !.pc = "approve", !.asked = TRUE,
                                      !.approved = approved]
    /\ UNCHANGED <<now, config_policy, risk_engine, sessions, actions,
                   near_misses, webhooks, active_connections, req, n_approve>>

\* The on_checkpoint handler raises.
HandlerRaises ==
    /\ tool_call.pc = "on_checkpoint"
    /\ tool_call' = Raise(tool_call, "HandlerError")
    /\ UNCHANGED <<now, config_policy, risk_engine, sessions, actions,
                   near_misses, webhooks, active_connections, req, n_approve>>

\* AsyncOversightClient.approve: the POST /approve reaches the gateway (SDK
\* l.119-127), with channel "langchain" and no notes (l.92-96, l.232).
client_approve ==
    /\ tool_call.pc = "approve"
    /\ ApLoad(1, tool_call.action_id, tool_call.approved, "langchain", "")

\* client.approve returns, or raise_for_status raises (SDK l.128-129).
ApproveReturns ==
    /\ tool_call.pc = "approve"
    /\ req[1].pc = "done" /\ req[1].kind = "approve"
    /\ tool_call' =
          IF req[1].status = 200
          THEN AfterApprove([tool_call EXCEPT !.recorded = TRUE])
          ELSE Raise(tool_call, "HTTPStatusError")
    /\ UNCHANGED <<now, config_policy, risk_engine, sessions, actions,
                   near_misses, webhooks, active_connections, req, n_approve>>

\* The awaited POST of the SDK client raises (connection refused before the
\* gateway saw the request, or the response is lost or late: timeout 30 s).
RequestFails ==
    /\ tool_call.pc \in {"evaluate", "approve"}
    /\ req[1].pc \in {"idle", "done"}
    /\ tool_call' = Raise(tool_call, "RequestError")
    /\ UNCHANGED <<now, config_policy, risk_engine, sessions, actions,
                   near_misses, webhooks, active_connections, req, n_approve>>

\* `return await original_run(*args, **kwargs)` (l.239): the tool runs.
original_run ==
    /\ tool_call.pc = "original_run"
    /\ tool_call' = [tool_call EXCEPT !.pc = "ended", !.ran = TRUE,
                                      !.outcome = "returned"]
    /\ UNCHANGED <<now, config_policy, risk_engine, sessions, actions,
                   near_misses, webhooks, active_connections, req, n_approve>>

NextChain ==
    \/ \E handler \in BOOLEAN, tool \in ChainTools :
          on_tool_start(handler, tool, <<"u">>)
    \/ \E handler \in BOOLEAN, tool \in ChainTools :
          oversight_run(handler, tool, <<"u">>)
    \/ client_evaluate
    \/ EvCreate(1)
    \/ EvRefresh(1)
    \/ EvNearMiss(1)
    \/ EvCompound(1)
    \/ EvCompound2(1)
    \/ EvInsert(1)
    \/ HooksSelect(1)
    \/ EvaluateReturns
    \/ \E approved \in BOOLEAN : HandlerReturns(approved)
    \/ HandlerRaises
    \/ client_approve
    \/ ApSession(1)
    \/ ApCommit(1)
    \/ ApproveReturns
    \/ RequestFails
    \/ original_run
    \/ tool_call.pc \notin {"evaluate", "approve"} /\ Return(1)

SpecChain == InitChain /\ [][NextChain]_vars

\* The tool call in progress has passed on_tool_start, or has reached or run
\* the tool's own run method.
Proceeds ==
    \/ tool_call.pc = "original_run"
    \/ tool_call.ran
    \/ tool_call.pc = "ended" /\ tool_call.outcome = "returned"

\* The Action of the tool call in progress stands decided as said, through
\* the channel "langchain".
RecordedAs(decision) ==
    /\ tool_call.action_id \in 1..Len(actions)
    /\ actions[tool_call.action_id].approval.approved = decision
    /\ actions[tool_call.action_id].approval.approval_channel = "langchain"

\* C39: a tool call whose evaluation returned needs_checkpoint = true gets
\* past on_tool_start, or to the run method of the wrapped tool, only if an
\* on_checkpoint handler is configured and returned true and client.approve
\* has returned, the Action then standing approved in the gateway; with no
\* handler it ends with PermissionError; when the handler returned false and
\* the rejection was recorded it ends with PermissionError and the Action
\* stands rejected; and in neither of these two cases does the tool run,
\* whatever becomes of the approve call.
C39_CheckpointGatesTool ==
    (tool_call.evaluated /\ tool_call.needs_checkpoint) =>
        /\ Proceeds =>
              /\ tool_call.on_checkpoint
              /\ tool_call.asked /\ tool_call.approved
              /\ tool_call.recorded
              /\ RecordedAs("approved")
        /\ (tool_call.pc = "ended" /\ ~tool_call.on_checkpoint) =>
              /\ tool_call.outcome = "PermissionError"
              /\ ~tool_call.ran
        /\ (tool_call.pc = "ended" /\ tool_call.asked /\ ~tool_call.approved) =>
              /\ ~tool_call.ran
              /\ tool_call.outcome # "returned"
              /\ tool_call.recorded =>
                    /\ tool_call.outcome = "PermissionError"
                    /\ RecordedAs("rejected")
        /\ tool_call.ran => tool_call.via = "wrapper"

\* After a first call that the handler rejected (Action 1 stands rejected), a
\* wrapped tool that needed a checkpoint has run with the handler's approval.
C39_Witness ==
    /\ Len(actions) = 2
    /\ actions[1].approval.approved = "rejected"
    /\ actions[1].approval.approval_channel = "langchain"
    /\ tool_call.via = "wrapper"
    /\ tool_call.needs_checkpoint
    /\ tool_call.ran
    /\ RecordedAs("approved")

=============================================================================
